---- MODULE Spec2Model ----
(***************************************************************************)
(* Cross-process hand-off of an exportable Vulkan memory object as a file  *)
(* descriptor: ExternalMemoryFDExport (producer process) sends the fd over *)
(* the UNIX-domain socket /tmp/.external-memory with SCM_RIGHTS,           *)
(* ExternalMemoryFDImport (consumer processes) receives and imports it.    *)
(*                                                                         *)
(* Build: assertions are enabled, so `assert(false)' and a failing         *)
(* `assert(cond)' terminate the process (pc "aborted").  Process           *)
(* termination closes every socket the process holds.                      *)
(*                                                                         *)
(* Operating system: socket(), bind(), listen(), accept(), connect(),      *)
(* sendmsg() and recvmsg() return a value the kernel chooses among the     *)
(* outcomes possible in the current state; accept() and recvmsg() block    *)
(* while there is neither a peer/message nor an end-of-stream.             *)
(***************************************************************************)
EXTENDS Integers, Sequences, FiniteSets, TLC

\* ---------------------------------------------------------------- bounds
MaxFrames    == 2      \* update() calls per process
NumConsumers == 2      \* importer processes started against one exporter
NumMemTypes  == 2      \* memory types of the physical device
NumInstances == 3      \* ExternalMemoryFDExport instances made by one process
MaxFd        == 1      \* largest descriptor number the kernel hands out
MaxDim       == 2      \* largest width and height of a surface
MaxPad       == 1      \* largest row padding (in texels) of a linear image
MaxReruns    == 1      \* times the producer process is started again
MaxSentFd    == 15     \* largest descriptor number given to send_fd
MaxMantissa  == 3      \* a surface width or height is m * 2^s with
MaxShift     == 15     \*   m in 1..MaxMantissa and s in 0..MaxShift

\* ------------------------------------------------------- program constants
ListenBacklog == 1     \* listen(external_socket, 1)
PayloadLen    == 1     \* iov[0].iov_len
CMSG_LEN_INT  == 20    \* CMSG_LEN(sizeof(int))
CMSG_LEN_ZERO == 16    \* CMSG_LEN(0): a control message without a payload
CMSG_LEN_TWO  == 24    \* CMSG_LEN(2 * sizeof(int)): two descriptors
SOL_SOCKET    == 1
SOL_OTHER     == 0     \* any other level (IPPROTO_IP)
SCM_RIGHTS    == 1
SCM_OTHER     == 2     \* any other type (SCM_CREDENTIALS)
NoFd          == -1    \* int imported_fd = -1
channel_count == 4     \* constexpr uint32_t channel_count = 4
channel_depth == 1     \* constexpr uint32_t channel_depth = 1
UINT32_BYTES  == 4     \* sizeof(uint32_t)
DEVICESIZE_BYTES == 8  \* sizeof(VkDeviceSize)

Consumers == 1..NumConsumers
Instances == 1..NumInstances
Fds       == 0..MaxFd
NoPeer    == 0

TStates == <<"Idle", "SocketCreated", "Bound", "Listening", "Connected", "Sent", "Closed">>
TStateSet == {TStates[i] : i \in 1..Len(TStates)}

\* the system calls of send_exportable_fd in program order
SendOrder == <<"socket", "bind", "listen", "accept", "sendmsg", "close">>

VARIABLES
  \* ---- producer process (ExternalMemoryFDExport)
  ppc,              \* position of the producer's thread
  exported,         \* static bool exported (update)
  exportable_image, \* "null" | "live"
  exportable_memory,\* "null" | "live"
  p_frames,         \* update() calls made
  p_submitted,      \* command buffers submitted and not yet started by the GPU
  p_writing,        \* the GPU is executing the copy into the exportable image
  p_copies,         \* copies into the exportable image that have finished
  p_waited,         \* waitIdle() has returned
  p_fd,             \* exportable_fd (export_memory)
  p_conn,           \* conn_fd: the accepted peer, NoPeer when invalid
  p_send_result,    \* send_result, 2 before send_fd returns
  p_err,            \* the LOGE that preceded the abort
  p_log,            \* system calls made by send_exportable_fd, with results
  p_export_calls,   \* calls of export_memory
  p_send_calls,     \* calls of send_exportable_fd
  tstate,           \* state of the sender's transport state machine
  \* ---- operating system
  path_exists,      \* /tmp/.external-memory is present in the file system
  lsock,            \* external_socket of the producer
  backlog,          \* connections queued on the listening socket
  conn,             \* per consumer: state of its connection
  chan,             \* per consumer: messages sent to it and not yet received
  \* ---- consumer processes (ExternalMemoryFDImport)
  cpc,              \* position of the consumer's thread
  c_fd,             \* imported_fd returned by receive_importable_fd
  c_err,            \* what stopped the consumer
  c_conn_at,        \* transport state of the producer when connect was called
  c_recv_calls,     \* recvmsg calls that returned
  c_import_calls,   \* allocateMemory calls with an import info
  c_import_fd,      \* descriptor given to allocateMemory
  c_frames,         \* update() calls made
  c_submitted,      \* command buffers submitted and not yet started by the GPU
  c_reading,        \* the GPU is executing the copy out of the imported image
  \* ---- receive_fd applied to an arbitrary received message
  rv_pc, rv_msg, rv_result,
  \* ---- producer process, resources and recorded commands
  p_closed,         \* descriptors the producer has passed to ::close
  p_cmdbuf,         \* commands recorded by the last draw()
  p_images,         \* images created by createImage
  p_memories,       \* memory objects allocated by allocateMemory
  p_recreate,       \* create operation called on the prepared instance
  p_teardown,       \* what the destructor did, in order
  \* ---- consumer processes, resources and recorded commands
  c_closed,         \* descriptors the consumer has passed to ::close
  c_ctrunc,         \* recvmsg delivered the message without its control data
  c_loge,           \* the LOGE written by the consumer
  c_color,          \* frame held by the color image after the last copy
  c_cmdbuf,         \* commands recorded by the last draw()
  imported_image,   \* "null" | "live" | "destroyed"
  imported_memory,  \* "null" | "live" | "freed"
  c_images,         \* images created by createImage
  c_memories,       \* memory objects allocated by the importing allocateMemory
  c_recreate,       \* create operation called on the prepared instance
  c_teardown,       \* what the destructor did, in order
  c_steps,          \* calls made by prepare() and update(), in order
  c_bind_offset,    \* memoryOffset given to bindImageMemory, -1 before
  \* ---- layout tracked by the render target for its view 0, per sample
  p_set_layout,     \* set_layout calls of the producer's last draw()
  p_rt_layout,      \* layout the producer's render target holds for view 0
  c_set_layout,     \* set_layout calls of the consumer's last draw()
  c_rt_layout,      \* layout the consumer's render target holds for view 0
  fd_set_layout,    \* set_layout calls of the standalone sample's last draw()
  fd_rt_layout,     \* layout its render target holds for view 0
  \* ---- layout of the imported image on the consumer's device
  imported_layout,  \* per consumer: "none" before createImage, then the layout
  \* ---- destruction of the members, after the destructor's body
  p_members,        \* what the producer's member destructors did, in order
  c_members,        \* per consumer: the same
  fd_members,       \* the same for the standalone sample
  \* ---- the standalone sample (ExternalMemoryFD)
  launched,         \* "pair": exporter and importers; "fd": ExternalMemoryFD
  fd_pc,            \* position of the sample's thread
  fd_pool,          \* pool: "null" | "live" | "destroyed"
  fd_image,         \* exportable_image: "null" | "live" | "destroyed"
  fd_fd,            \* int fd = -1
  fd_frames,        \* update() calls made
  fd_cmdbuf,        \* commands recorded by the last draw()
  fd_images,        \* images built by HPPImageBuilder
  fd_pools,         \* pools created by vmaCreatePool
  fd_recreate,      \* create operation called on the prepared instance
  fd_teardown,      \* what the destructor did, in order
  \* ---- allocation sizes of one exporter and one importer
  al_pc, al_p_extent, al_c_extent, al_pad, al_p_size, al_c_size,
  \* ---- choice of the memory type by one sample on one device
  mt_pc,            \* position in the sample's allocation
  mt_sample,        \* "export" | "import" | "fd"
  mt_props,         \* per memory type of the device: its property flags
  mt_image_bits,    \* memoryTypeBits reported for the sample's image
  mt_buffer_bits,   \* memoryTypeBits reported for the example buffer
  mt_pool_type,     \* poolCreateInfo.memoryTypeIndex, -1 before
  mt_type,          \* memory type of the allocation, -1 before
  \* ---- producer process started again
  p_runs,           \* earlier runs of the producer process
  p_stale,          \* an earlier run left the path on disk for this run
  \* ---- one message from send_fd to receive_fd
  rt_pc,            \* "start" | "sent" | "received" | "returned"
  rt_fd,            \* exportable_fd given to send_fd
  rt_msg,           \* the message built, then the message recvmsg filled in
  rt_result,        \* what receive_fd returned
  \* ---- one sample whose surface is resized between frames
  rs_pc,            \* "constructed" | "prepared" | "aborted"
  rs_sample,        \* "export" | "import" | "fd"
  rs_surface,       \* extent of the surface and of the render target's images
  rs_shared,        \* extent of the shared image created in prepare()
  rs_region,        \* image_copy.extent of the last recorded copy
  rs_frames,        \* update() calls made
  \* ---- get_image_size on one surface extent
  sz_pc,            \* "start" | "returned"
  sz_extent,        \* get_render_context().get_surface_extent()
  sz_result,        \* the VkDeviceSize returned, as its 8 bytes
  \* ---- several ExternalMemoryFDExport instances in one process
  tw_exported,      \* static bool exported of update(), one per process
  tw_pc,            \* per instance: "none" | "constructed" | "prepared" | ...
  tw_frames,        \* per instance: update() calls made
  tw_waits,         \* per instance: waitIdle() calls made by update()
  tw_exports        \* per instance: export_memory() calls made by update()

pvars == <<ppc, exported, exportable_image, exportable_memory, p_frames,
           p_submitted, p_writing, p_copies, p_waited, p_fd, p_conn,
           p_send_result, p_err, p_log, p_export_calls, p_send_calls, tstate>>
osvars == <<path_exists, lsock, backlog, conn, chan>>
cvars == <<cpc, c_fd, c_err, c_conn_at, c_recv_calls, c_import_calls,
           c_import_fd, c_frames, c_submitted, c_reading>>
rvvars == <<rv_pc, rv_msg, rv_result>>
pxvars == <<p_closed, p_cmdbuf, p_images, p_memories, p_recreate, p_teardown>>
cxvars == <<c_closed, c_ctrunc, c_loge, c_color, c_cmdbuf, imported_image,
            imported_memory, c_images, c_memories, c_recreate, c_teardown>>
cyvars == <<c_steps, c_bind_offset>>
ltvars == <<p_set_layout, p_rt_layout, c_set_layout, c_rt_layout,
            fd_set_layout, fd_rt_layout>>
ilvars == <<imported_layout>>
tdvars == <<p_members, c_members, fd_members>>
fdvars == <<launched, fd_pc, fd_pool, fd_image, fd_fd, fd_frames, fd_cmdbuf,
            fd_images, fd_pools, fd_recreate, fd_teardown>>
alvars == <<al_pc, al_p_extent, al_c_extent, al_pad, al_p_size, al_c_size>>
mtvars == <<mt_pc, mt_sample, mt_props, mt_image_bits, mt_buffer_bits,
            mt_pool_type, mt_type>>
rrvars == <<p_runs, p_stale>>
rtvars == <<rt_pc, rt_fd, rt_msg, rt_result>>
rsvars == <<rs_pc, rs_sample, rs_surface, rs_shared, rs_region, rs_frames>>
szvars == <<sz_pc, sz_extent, sz_result>>
twvars == <<tw_exported, tw_pc, tw_frames, tw_waits, tw_exports>>
morevars == <<mtvars, rrvars, rtvars, rsvars, szvars, twvars>>
vars == <<pvars, osvars, cvars, rvvars, pxvars, cxvars, cyvars, ltvars, tdvars,
          ilvars, fdvars, alvars, morevars>>

\* ------------------------------------------------------------- messages
NoMsg == [has_cmsg |-> FALSE, cmsg_len |-> 0, cmsg_level |-> 0, cmsg_type |-> 0, data |-> NoFd]

\* send_fd: one control message carrying exportable_fd next to a 1-byte payload
send_fd_msg_credentials(fd) ==
  [has_cmsg |-> TRUE, cmsg_len |-> CMSG_LEN_INT, cmsg_level |-> SOL_SOCKET,
   cmsg_type |-> SCM_OTHER, data |-> fd]
send_fd_msg(fd) ==
  [has_cmsg |-> TRUE, cmsg_len |-> CMSG_LEN_INT, cmsg_level |-> SOL_SOCKET,
   cmsg_type |-> SCM_RIGHTS, data |-> fd]

\* what recvmsg hands to the receiver for a message in flight: the kernel
\* installs the passed file under a descriptor number of the receiving
\* process, or drops the control message when it cannot install it
Delivered(m) ==
  {[m EXCEPT !.data = nfd] : nfd \in Fds} \cup {NoMsg}

receive_fd_nolen(m) ==
  IF m.has_cmsg
  THEN IF m.cmsg_level # SOL_SOCKET THEN -1
       ELSE IF m.cmsg_type # SCM_RIGHTS THEN -1
       ELSE m.data
  ELSE -1

\* receive_fd after recvmsg returned n > 0
receive_fd(m) ==
  IF m.has_cmsg /\ m.cmsg_len = CMSG_LEN_INT
  THEN IF m.cmsg_level # SOL_SOCKET THEN -1
       ELSE IF m.cmsg_type # SCM_RIGHTS THEN -1
       ELSE m.data
  ELSE -1

\* ------------------------------------------------------ operating system
\* process exit or close() of a socket that is still open
close_socket(ls) == IF ls \in {"open", "bound", "listening"} THEN "closed" ELSE ls

\* closing the listening socket resets the connections still queued on it
ResetQueued(cn) == [c \in Consumers |-> IF cn[c] = "queued" THEN "eof" ELSE cn[c]]

\* closing conn_fd: the peer reads what is in flight, then end-of-stream
ClosePeer(cn, peer) ==
  [c \in Consumers |-> IF c = peer /\ cn[c] = "accepted" THEN "eof" ELSE cn[c]]

socket_results == {-1, 0}

\* bind(): EADDRINUSE while the path is present in the file system
bind_results(ls, pe) == IF ls = "open" /\ ~pe THEN {-1, 0} ELSE {-1}

\* unlink(un.sun_path): the path is gone afterwards
unlink_missing(pe) == pe
unlink(pe) == FALSE
listen_results(ls) == IF ls = "bound" THEN {-1, 0} ELSE {-1}
accept_results(ls) == IF ls = "listening" THEN {-1, 0} ELSE {-1}
sendmsg_results(peer) == IF peer # NoPeer THEN {-1, 0, PayloadLen} ELSE {-1}

\* connect(): ENOENT without the path, ECONNREFUSED without a listener
connect_results(pe, ls) == IF pe /\ ls = "listening" THEN {-1, 0} ELSE {-1}

\* a blocking connect() waits while the listener's queue is full
connect_blocks(pe, ls, bl) == pe /\ ls = "listening" /\ Len(bl) > ListenBacklog

\* ---------------------------------------------------- recorded commands
\* a recorded command: <<"barrier", image, old layout, new layout>>,
\* <<"renderpass", target, "-", "-">> or <<"copy", source, destination, "-">>
barrier(img, old, new) == <<"barrier", img, old, new>>

\* ExternalMemoryFDExport::copy_color_image_to_exportable_image
Export_copy_color_image_to_exportable_image ==
  << barrier("color", "ColorAttachmentOptimal", "TransferSrcOptimal"),
     barrier("exportable", "Undefined", "TransferDstOptimal"),
     <<"copy", "color", "exportable", "-">> >>

\* ExternalMemoryFDExport::draw (the render target has the swapchain image
\* as view 0 and the depth image as view 1)
Export_draw_copy_first ==
  Export_copy_color_image_to_exportable_image \o
  << barrier("color", "Undefined", "ColorAttachmentOptimal"),
     barrier("depth", "Undefined", "DepthStencilAttachmentOptimal"),
     <<"renderpass", "color", "-", "-">> >> \o
  << barrier("color", "TransferSrcOptimal", "PresentSrcKHR") >>
Export_draw ==
  << barrier("color", "Undefined", "ColorAttachmentOptimal"),
     barrier("depth", "Undefined", "DepthStencilAttachmentOptimal"),
     <<"renderpass", "color", "-", "-">> >> \o
  Export_copy_color_image_to_exportable_image \o
  << barrier("color", "TransferSrcOptimal", "PresentSrcKHR") >>

\* ExternalMemoryFDImport::copy_imported_image_to_color_image
Import_copy_imported_image_to_color_image ==
  << barrier("imported", "Undefined", "TransferSrcOptimal"),
     barrier("color", "Undefined", "TransferDstOptimal"),
     <<"copy", "imported", "color", "-">> >>

\* ExternalMemoryFDImport::draw
Import_draw ==
  Import_copy_imported_image_to_color_image \o
  << barrier("color", "TransferDstOptimal", "PresentSrcKHR") >>

\* ExternalMemoryFD::copy_color_image_to_exportable_image
FD_copy_color_image_to_exportable_image ==
  << barrier("color", "ColorAttachmentOptimal", "TransferSrcOptimal"),
     barrier("exportable", "Undefined", "TransferDstOptimal"),
     <<"copy", "color", "exportable", "-">> >>

\* ExternalMemoryFD::draw
FD_draw ==
  << barrier("color", "Undefined", "ColorAttachmentOptimal"),
     barrier("depth", "Undefined", "DepthStencilAttachmentOptimal"),
     <<"renderpass", "color", "-", "-">> >> \o
  FD_copy_color_image_to_exportable_image \o
  << barrier("color", "TransferSrcOptimal", "PresentSrcKHR") >>

\* the calls render_target.set_layout(view, layout) of a draw(), in order:
\* <<commands recorded before the call, view, layout>>
\* ExternalMemoryFDExport::draw and copy_color_image_to_exportable_image
Export_draw_set_layout ==
  << <<1, 0, "ColorAttachmentOptimal">>,
     <<2, 1, "DepthStencilAttachmentOptimal">>,
     <<4, 0, "TransferSrcOptimal">>,
     <<7, 0, "PresentSrcKHR">> >>

\* ExternalMemoryFDImport::draw and copy_imported_image_to_color_image
Import_draw_set_layout_present_only == << <<4, 0, "PresentSrcKHR">> >>
Import_draw_set_layout ==
  << <<2, 0, "TransferDstOptimal">>,
     <<4, 0, "PresentSrcKHR">> >>

\* ExternalMemoryFD::draw and copy_color_image_to_exportable_image
FD_draw_set_layout ==
  << <<1, 0, "ColorAttachmentOptimal">>,
     <<2, 1, "DepthStencilAttachmentOptimal">>,
     <<4, 0, "TransferSrcOptimal">>,
     <<7, 0, "PresentSrcKHR">> >>

\* HPPRenderTarget::set_layout applied call by call: the layout held for
\* `view' after the calls
RECURSIVE set_layouts(_, _, _)
set_layouts(layout, calls, view) ==
  IF calls = <<>> THEN layout
  ELSE set_layouts(IF Head(calls)[2] = view THEN Head(calls)[3] ELSE layout,
                   Tail(calls), view)

\* a barrier whose old layout is Undefined lets the driver discard what the
\* image holds
layout_discards(cmds, img) ==
  \E i \in 1..Len(cmds) : cmds[i][1] = "barrier" /\ cmds[i][2] = img
                          /\ cmds[i][3] = "Undefined"

\* image_create_info.initialLayout of create_imported_image
initialLayout == "Undefined"

\* the layout an image is in after the device executed the commands: the new
\* layout of the last barrier recorded for it
RECURSIVE layout_after(_, _, _)
layout_after(layout, cmds, img) ==
  IF cmds = <<>> THEN layout
  ELSE layout_after(IF Head(cmds)[1] = "barrier" /\ Head(cmds)[2] = img
                    THEN Head(cmds)[4] ELSE layout,
                    Tail(cmds), img)

NoFrame == [kind |-> "none", frame |-> 0]
GarbageFrame == [kind |-> "garbage", frame |-> 0]

\* what the consumer's copy_image(*hpp_imported_image, color_image) leaves in
\* the color image: the frame the shared memory holds, or anything when the
\* recorded barrier discards the imported image or the producer's copy into
\* the same memory is running
copy_outcomes(cmds, content, writing) ==
  {[kind |-> "frame", frame |-> content]} \cup
  (IF layout_discards(cmds, "imported") \/ writing THEN {GarbageFrame} ELSE {})

\* ------------------------------------------------------------ resources
\* create_exportable_image: assert(exportable_image == VK_NULL_HANDLE)
create_exportable_image_pre_missing(img) == TRUE
create_exportable_image_pre(img) == img = "null"

\* create_exportable_memory: assert(exportable_memory == VK_NULL_HANDLE)
create_exportable_memory_pre(mem) == mem = "null"

\* create_imported_image: assert(imported_image == VK_NULL_HANDLE)
create_imported_image_pre(img) == img = "null"

\* import_memory: assert(imported_memory == VK_NULL_HANDLE) and
\* assert(imported_image != nullptr)
import_memory_pre(mem, img) == mem = "null" /\ img # "null"

\* ::close(conn_fd); ::close(external_socket) of send_exportable_fd
send_exportable_fd_closes == {"conn_fd", "external_socket"}

\* ::close(external_socket) of receive_importable_fd
receive_importable_fd_closes_fd == {"external_socket", "imported_fd"}
receive_importable_fd_closes == {"external_socket"}

\* -------------------------------------------------------------- producer
\* every `if (x < 0) { LOGE(...); assert(false); }' of send_exportable_fd
syscall_failed_never(r) == FALSE
syscall_failed(r) == r < 0

\* update(): `if (!exported)' after render_context.submit
update_next_no_wait(exp) == IF ~exp THEN "export" ELSE "prepared"
update_next_always(exp) == "waitIdle"
update_next(exp) == IF ~exp THEN "waitIdle" ELSE "prepared"

\* device.waitIdle() returns once no submitted work is unfinished
waitIdle_returns_at_once(sub, wr) == TRUE
waitIdle_returns(sub, wr) == sub = 0 /\ ~wr

\* the blocking accept(external_socket, nullptr, nullptr)
accept_blocks_never(ls, bl) == FALSE
accept_blocks(ls, bl) == ls = "listening" /\ bl = <<>>

\* ::close(external_socket) at the end of send_exportable_fd
close_external_socket_missing(ls) == ls
close_external_socket(ls) == close_socket(ls)

Advance(ts, from, to, ok) == IF ok /\ ts = from THEN to ELSE ts

\* prepare(): create_exportable_image, which calls create_exportable_memory
Export_prepare ==
  /\ ppc = "constructed"
  /\ create_exportable_image_pre(exportable_image)
  /\ create_exportable_memory_pre(exportable_memory)
  /\ exportable_image' = "live"
  /\ exportable_memory' = "live"
  /\ p_images' = p_images + 1
  /\ p_memories' = p_memories + 1
  /\ ppc' = "prepared"
  /\ UNCHANGED <<exported, p_frames, p_submitted, p_writing, p_copies, p_waited,
                 p_fd, p_conn, p_send_result, p_err, p_log, p_export_calls,
                 p_send_calls, tstate, osvars, cvars, rvvars>>
  /\ UNCHANGED <<p_closed, p_cmdbuf, p_recreate, p_teardown, cxvars, fdvars,
                 alvars, morevars>>
  /\ UNCHANGED cyvars
  /\ UNCHANGED ltvars
  /\ UNCHANGED tdvars
  /\ UNCHANGED ilvars

\* update(): record draw(), submit, then look at the static flag
Export_update ==
  /\ ppc = "prepared"
  /\ p_frames < MaxFrames
  /\ p_frames' = p_frames + 1
  /\ p_submitted' = p_submitted + 1
  /\ ppc' = update_next(exported)
  /\ p_cmdbuf' = Export_draw
  /\ UNCHANGED <<exported, exportable_image, exportable_memory, p_writing,
                 p_copies, p_waited, p_fd, p_conn, p_send_result, p_err, p_log,
                 p_export_calls, p_send_calls, tstate, osvars, cvars, rvvars>>
  /\ UNCHANGED <<p_closed, p_images, p_memories, p_recreate, p_teardown,
                 cxvars, fdvars, alvars, morevars>>
  /\ UNCHANGED cyvars
  /\ p_set_layout' = Export_draw_set_layout
  /\ p_rt_layout' = set_layouts(p_rt_layout, Export_draw_set_layout, 0)
  /\ UNCHANGED <<c_set_layout, c_rt_layout, fd_set_layout, fd_rt_layout>>
  /\ UNCHANGED tdvars
  /\ UNCHANGED ilvars

\* the producer's queue starts the next submitted command buffer
Export_gpu_begin ==
  /\ p_submitted > 0 /\ ~p_writing
  /\ ppc # "aborted"
  /\ p_submitted' = p_submitted - 1
  /\ p_writing' = TRUE
  /\ UNCHANGED <<ppc, exported, exportable_image, exportable_memory, p_frames,
                 p_copies, p_waited, p_fd, p_conn, p_send_result, p_err, p_log,
                 p_export_calls, p_send_calls, tstate, osvars, cvars, rvvars>>
  /\ UNCHANGED <<pxvars, cxvars, fdvars, alvars, morevars>>
  /\ UNCHANGED cyvars
  /\ UNCHANGED ltvars
  /\ UNCHANGED tdvars
  /\ UNCHANGED ilvars

\* ... and finishes it: copy_image(color_image, *hpp_exportable_image) is done
Export_gpu_end ==
  /\ p_writing
  /\ ppc # "aborted"
  /\ p_writing' = FALSE
  /\ p_copies' = p_copies + 1
  /\ UNCHANGED <<ppc, exported, exportable_image, exportable_memory, p_frames,
                 p_submitted, p_waited, p_fd, p_conn, p_send_result, p_err,
                 p_log, p_export_calls, p_send_calls, tstate, osvars, cvars,
                 rvvars>>
  /\ UNCHANGED <<pxvars, cxvars, fdvars, alvars, morevars>>
  /\ UNCHANGED cyvars
  /\ UNCHANGED ltvars
  /\ UNCHANGED tdvars
  /\ UNCHANGED ilvars

Export_waitIdle ==
  /\ ppc = "waitIdle"
  /\ waitIdle_returns(p_submitted, p_writing)
  /\ p_waited' = TRUE
  /\ ppc' = "export"
  /\ UNCHANGED <<exported, exportable_image, exportable_memory, p_frames,
                 p_submitted, p_writing, p_copies, p_fd, p_conn, p_send_result,
                 p_err, p_log, p_export_calls, p_send_calls, tstate, osvars,
                 cvars, rvvars>>
  /\ UNCHANGED <<pxvars, cxvars, fdvars, alvars, morevars>>
  /\ UNCHANGED cyvars
  /\ UNCHANGED ltvars
  /\ UNCHANGED tdvars
  /\ UNCHANGED ilvars

\* export_memory(): getMemoryFdKHR, then the call of send_exportable_fd
Export_export_memory ==
  /\ ppc = "export"
  /\ exportable_image # "null"
  /\ \E fd \in Fds : p_fd' = fd
  /\ p_export_calls' = p_export_calls + 1
  /\ p_send_calls' = p_send_calls + 1
  /\ ppc' = "socket"
  /\ UNCHANGED <<exported, exportable_image, exportable_memory, p_frames,
                 p_submitted, p_writing, p_copies, p_waited, p_conn,
                 p_send_result, p_err, p_log, tstate, osvars, cvars, rvvars>>
  /\ UNCHANGED <<pxvars, cxvars, fdvars, alvars, morevars>>
  /\ UNCHANGED cyvars
  /\ UNCHANGED ltvars
  /\ UNCHANGED tdvars
  /\ UNCHANGED ilvars

Export_socket ==
  /\ ppc = "socket"
  /\ \E r \in socket_results :
       /\ p_log' = Append(p_log, <<"socket", r>>)
       /\ tstate' = Advance(tstate, "Idle", "SocketCreated", r >= 0)
       /\ IF syscall_failed(r)
          THEN /\ ppc' = "aborted" /\ p_err' = "socket"
               /\ lsock' = close_socket(IF r >= 0 THEN "open" ELSE lsock)
          ELSE /\ ppc' = "bind" /\ UNCHANGED p_err
               /\ lsock' = IF r >= 0 THEN "open" ELSE lsock
  /\ UNCHANGED <<exported, exportable_image, exportable_memory, p_frames,
                 p_submitted, p_writing, p_copies, p_waited, p_fd, p_conn,
                 p_send_result, p_export_calls, p_send_calls, path_exists,
                 backlog, conn, chan, cvars, rvvars>>
  /\ UNCHANGED <<pxvars, cxvars, fdvars, alvars, morevars>>
  /\ UNCHANGED cyvars
  /\ UNCHANGED ltvars
  /\ UNCHANGED tdvars
  /\ UNCHANGED ilvars

\* unlink(un.sun_path), then bind
Export_bind ==
  /\ ppc = "bind"
  /\ \E r \in bind_results(lsock, unlink(path_exists)) :
       /\ p_log' = Append(p_log, <<"bind", r>>)
       /\ tstate' = Advance(tstate, "SocketCreated", "Bound", r >= 0)
       /\ path_exists' = (unlink(path_exists) \/ r >= 0)
       /\ IF syscall_failed(r)
          THEN /\ ppc' = "aborted" /\ p_err' = "bind"
               /\ lsock' = close_socket(IF r >= 0 THEN "bound" ELSE lsock)
          ELSE /\ ppc' = "listen" /\ UNCHANGED p_err
               /\ lsock' = IF r >= 0 THEN "bound" ELSE lsock
  /\ UNCHANGED <<exported, exportable_image, exportable_memory, p_frames,
                 p_submitted, p_writing, p_copies, p_waited, p_fd, p_conn,
                 p_send_result, p_export_calls, p_send_calls, backlog, conn,
                 chan, cvars, rvvars>>
  /\ UNCHANGED <<pxvars, cxvars, fdvars, alvars, morevars>>
  /\ UNCHANGED cyvars
  /\ UNCHANGED ltvars
  /\ UNCHANGED tdvars
  /\ UNCHANGED ilvars

Export_listen ==
  /\ ppc = "listen"
  /\ \E r \in listen_results(lsock) :
       /\ p_log' = Append(p_log, <<"listen", r>>)
       /\ tstate' = Advance(tstate, "Bound", "Listening", r >= 0)
       /\ IF syscall_failed(r)
          THEN /\ ppc' = "aborted" /\ p_err' = "listen"
               /\ lsock' = close_socket(IF r >= 0 THEN "listening" ELSE lsock)
          ELSE /\ ppc' = "accept" /\ UNCHANGED p_err
               /\ lsock' = IF r >= 0 THEN "listening" ELSE lsock
  /\ UNCHANGED <<exported, exportable_image, exportable_memory, p_frames,
                 p_submitted, p_writing, p_copies, p_waited, p_fd, p_conn,
                 p_send_result, p_export_calls, p_send_calls, path_exists,
                 backlog, conn, chan, cvars, rvvars>>
  /\ UNCHANGED <<pxvars, cxvars, fdvars, alvars, morevars>>
  /\ UNCHANGED cyvars
  /\ UNCHANGED ltvars
  /\ UNCHANGED tdvars
  /\ UNCHANGED ilvars

\* accept: takes the first queued connection, or fails on it
Export_accept ==
  /\ ppc = "accept"
  /\ ~accept_blocks(lsock, backlog)
  /\ \E r \in (IF backlog = <<>> THEN {-1} ELSE accept_results(lsock)) :
       LET taken == lsock = "listening" /\ backlog # <<>>
           bl1   == IF taken THEN Tail(backlog) ELSE backlog
           cn1   == IF taken
                    THEN [conn EXCEPT ![Head(backlog)] =
                            IF r >= 0 THEN "accepted" ELSE "eof"]
                    ELSE conn
       IN
       /\ p_log' = Append(p_log, <<"accept", r>>)
       /\ tstate' = Advance(tstate, "Listening", "Connected", r >= 0)
       /\ p_conn' = IF r >= 0 THEN Head(backlog) ELSE NoPeer
       /\ IF syscall_failed(r)
          THEN /\ ppc' = "aborted" /\ p_err' = "accept"
               /\ lsock' = close_socket(lsock)
               /\ backlog' = <<>>
               /\ conn' = ResetQueued(IF r >= 0
                                      THEN [cn1 EXCEPT ![Head(backlog)] = "eof"]
                                      ELSE cn1)
          ELSE /\ ppc' = "send_fd" /\ UNCHANGED <<p_err, lsock>>
               /\ backlog' = bl1
               /\ conn' = cn1
  /\ UNCHANGED <<exported, exportable_image, exportable_memory, p_frames,
                 p_submitted, p_writing, p_copies, p_waited, p_fd,
                 p_send_result, p_export_calls, p_send_calls, path_exists,
                 chan, cvars, rvvars>>
  /\ UNCHANGED <<pxvars, cxvars, fdvars, alvars, morevars>>
  /\ UNCHANGED cyvars
  /\ UNCHANGED ltvars
  /\ UNCHANGED tdvars
  /\ UNCHANGED ilvars

\* send_fd(conn_fd, exportable_fd) and the check of its result
Export_send_fd ==
  /\ ppc = "send_fd"
  /\ \E r \in sendmsg_results(p_conn) :
       /\ p_log' = Append(p_log, <<"sendmsg", r>>)
       /\ p_send_result' = r
       /\ tstate' = Advance(tstate, "Connected", "Sent", r >= 0)
       /\ chan' = IF r >= PayloadLen
                  THEN [chan EXCEPT ![p_conn] = Append(@, send_fd_msg(p_fd))]
                  ELSE chan
       /\ IF syscall_failed(r)
          THEN /\ ppc' = "aborted" /\ p_err' = "send"
               /\ lsock' = close_socket(lsock)
               /\ backlog' = <<>>
               /\ conn' = ClosePeer(ResetQueued(conn), p_conn)
          ELSE /\ ppc' = "close"
               /\ UNCHANGED <<p_err, lsock, backlog, conn>>
  /\ UNCHANGED <<exported, exportable_image, exportable_memory, p_frames,
                 p_submitted, p_writing, p_copies, p_waited, p_fd, p_conn,
                 p_export_calls, p_send_calls, path_exists, cvars, rvvars>>
  /\ UNCHANGED <<pxvars, cxvars, fdvars, alvars, morevars>>
  /\ UNCHANGED cyvars
  /\ UNCHANGED ltvars
  /\ UNCHANGED tdvars
  /\ UNCHANGED ilvars

\* ::close(conn_fd); ::close(external_socket); back in update(): exported = true
Export_close ==
  /\ ppc = "close"
  /\ LET ls1 == close_external_socket(lsock) IN
       /\ lsock' = ls1
       /\ backlog' = IF ls1 = "listening" THEN backlog ELSE <<>>
       /\ conn' = ClosePeer(IF ls1 = "listening" THEN conn ELSE ResetQueued(conn),
                            p_conn)
  /\ p_log' = Append(p_log, <<"close", 0>>)
  /\ tstate' = Advance(tstate, "Sent", "Closed", TRUE)
  /\ exported' = TRUE
  /\ ppc' = "prepared"
  /\ p_closed' = p_closed \cup send_exportable_fd_closes
  /\ UNCHANGED <<exportable_image, exportable_memory, p_frames, p_submitted,
                 p_writing, p_copies, p_waited, p_fd, p_conn, p_send_result,
                 p_err, p_export_calls, p_send_calls, path_exists, chan, cvars,
                 rvvars>>
  /\ UNCHANGED <<p_cmdbuf, p_images, p_memories, p_recreate, p_teardown,
                 cxvars, fdvars, alvars, morevars>>
  /\ UNCHANGED cyvars
  /\ UNCHANGED ltvars
  /\ UNCHANGED tdvars
  /\ UNCHANGED ilvars

\* -------------------------------------------------------------- consumer
\* `if (x < 0) { LOGE(...); assert(false); }' of receive_importable_fd
import_syscall_failed_never(r) == FALSE
import_syscall_failed(r) == r < 0

\* receive_fd: `if ((n = recvmsg(socket, &msg, 0)) <= 0)'
recvmsg_failed(n) == n <= 0

\* receive_importable_fd: `assert(imported_fd >= 0)' fails
imported_fd_rejected_never(fd) == FALSE
imported_fd_rejected_zero(fd) == ~(fd > 0)
imported_fd_rejected(fd) == ~(fd >= 0)

\* every content the receive buffer can have
AllMsgs ==
  [has_cmsg : BOOLEAN, cmsg_len : {CMSG_LEN_ZERO, CMSG_LEN_INT, CMSG_LEN_TWO},
   cmsg_level : {SOL_SOCKET, SOL_OTHER}, cmsg_type : {SCM_RIGHTS, SCM_OTHER},
   data : Fds \cup {NoFd}]

\* recvmsg on the consumer's socket: a message if one is in flight, 0 at
\* end-of-stream, -1 on a socket that is not connected; blocks otherwise
recvmsg_results(cn, ch) ==
  IF cn \notin {"queued", "accepted", "eof"} THEN {-1}
  ELSE IF ch # <<>> THEN {PayloadLen}
  ELSE IF cn = "eof" THEN {0}
  ELSE {}

ConsumerAbort(c, err) ==
  /\ cpc' = [cpc EXCEPT ![c] = "aborted"]
  /\ c_err' = [c_err EXCEPT ![c] = err]

\* LOGE(...): the last error message the consumer wrote
Loge(c, msg) == c_loge' = [c_loge EXCEPT ![c] = IF msg = "none" THEN @ ELSE msg]

\* receive_fd: the LOGE calls in the checks of cmsg_level and cmsg_type; the
\* branch for an absent or wrongly sized control message writes none
receive_fd_loge(m) ==
  IF m.has_cmsg /\ m.cmsg_len = CMSG_LEN_INT
  THEN IF m.cmsg_level # SOL_SOCKET THEN "level"
       ELSE IF m.cmsg_type # SCM_RIGHTS THEN "type"
       ELSE "none"
  ELSE "none"

\* a call made by the consumer's prepare() or update()
Step(c, call) == c_steps' = [c_steps EXCEPT ![c] = Append(@, call)]

\* create_imported_image after import_memory returned: bindImageMemory(
\* imported_image, imported_memory, 0), then HPPImage and HPPImageView
bind_offset == 0
create_imported_image_view_first == <<"HPPImageView", "bindImageMemory">>
create_imported_image_tail == <<"bindImageMemory", "HPPImageView">>

\* prepare(): create_imported_image up to createImage, import_memory's
\* preconditions, entry of receive_importable_fd
Import_prepare(c) ==
  /\ cpc[c] = "constructed"
  /\ create_imported_image_pre(imported_image[c])
  /\ imported_image' = [imported_image EXCEPT ![c] = "live"]
  /\ c_images' = [c_images EXCEPT ![c] = @ + 1]
  /\ import_memory_pre(imported_memory[c], imported_image'[c])
  /\ cpc' = [cpc EXCEPT ![c] = "socket"]
  /\ UNCHANGED <<pvars, osvars, c_fd, c_err, c_conn_at, c_recv_calls,
                 c_import_calls, c_import_fd, c_frames, c_submitted, c_reading,
                 rvvars>>
  /\ UNCHANGED <<pxvars, c_closed, c_ctrunc, c_loge, c_color, c_cmdbuf,
                 imported_memory, c_memories, c_recreate, c_teardown,
                 fdvars, alvars, morevars>>
  /\ Step(c, "createImage") /\ UNCHANGED c_bind_offset
  /\ UNCHANGED ltvars
  /\ UNCHANGED tdvars
  /\ imported_layout' = [imported_layout EXCEPT ![c] = initialLayout]

Import_socket(c) ==
  /\ cpc[c] = "socket"
  /\ \E r \in socket_results :
       /\ conn' = [conn EXCEPT ![c] = IF r >= 0 THEN "open" ELSE @]
       /\ IF import_syscall_failed(r)
          THEN ConsumerAbort(c, "socket") /\ Loge(c, "socket")
          ELSE cpc' = [cpc EXCEPT ![c] = "connect"] /\ UNCHANGED <<c_err, c_loge>>
  /\ UNCHANGED <<pvars, path_exists, lsock, backlog, chan, c_fd, c_conn_at,
                 c_recv_calls, c_import_calls, c_import_fd, c_frames,
                 c_submitted, c_reading, rvvars>>
  /\ UNCHANGED <<pxvars, c_closed, c_ctrunc, c_color, c_cmdbuf,
                 imported_image, imported_memory, c_images, c_memories,
                 c_recreate, c_teardown, fdvars, alvars, morevars>>
  /\ Step(c, "socket") /\ UNCHANGED c_bind_offset
  /\ UNCHANGED ltvars
  /\ UNCHANGED tdvars
  /\ UNCHANGED ilvars

Import_connect(c) ==
  /\ cpc[c] = "connect"
  /\ ~connect_blocks(path_exists, lsock, backlog)
  /\ \E r \in (IF conn[c] = "open" THEN connect_results(path_exists, lsock)
               ELSE {-1}) :
       /\ c_conn_at' = [c_conn_at EXCEPT ![c] = tstate]
       /\ backlog' = IF r >= 0 THEN Append(backlog, c) ELSE backlog
       /\ IF import_syscall_failed(r)
          THEN /\ ConsumerAbort(c, "connect") /\ Loge(c, "connect")
               /\ conn' = [conn EXCEPT ![c] = "closed"]
          ELSE /\ cpc' = [cpc EXCEPT ![c] = "recvmsg"]
               /\ UNCHANGED <<c_err, c_loge>>
               /\ conn' = [conn EXCEPT ![c] = IF r >= 0 THEN "queued" ELSE @]
  /\ UNCHANGED <<pvars, path_exists, lsock, chan, c_fd, c_recv_calls,
                 c_import_calls, c_import_fd, c_frames, c_submitted, c_reading,
                 rvvars>>
  /\ UNCHANGED <<pxvars, c_closed, c_ctrunc, c_color, c_cmdbuf,
                 imported_image, imported_memory, c_images, c_memories,
                 c_recreate, c_teardown, fdvars, alvars, morevars>>
  /\ Step(c, "connect") /\ UNCHANGED c_bind_offset
  /\ UNCHANGED ltvars
  /\ UNCHANGED tdvars
  /\ UNCHANGED ilvars

\* receive_fd(external_socket) and `assert(imported_fd >= 0)'
Import_receive_fd(c) ==
  /\ cpc[c] = "recvmsg"
  /\ \E n \in recvmsg_results(conn[c], chan[c]) :
       /\ c_recv_calls' = [c_recv_calls EXCEPT ![c] = @ + 1]
       /\ chan' = [chan EXCEPT ![c] = IF n > 0 THEN Tail(@) ELSE @]
       /\ IF recvmsg_failed(n)
          THEN /\ ConsumerAbort(c, "recvmsg") /\ Loge(c, "recvmsg")
               /\ conn' = [conn EXCEPT ![c] = "closed"]
               /\ UNCHANGED <<c_fd, c_ctrunc>>
          ELSE \E m \in (IF n > 0 THEN Delivered(Head(chan[c])) ELSE AllMsgs) :
                 LET fd == receive_fd(m) IN
                 /\ c_fd' = [c_fd EXCEPT ![c] = fd]
                 /\ c_ctrunc' = [c_ctrunc EXCEPT ![c] = (n > 0 /\ m = NoMsg)]
                 /\ Loge(c, receive_fd_loge(m))
                 /\ IF imported_fd_rejected(fd)
                    THEN /\ ConsumerAbort(c, "no_fd")
                         /\ conn' = [conn EXCEPT ![c] = "closed"]
                    ELSE /\ cpc' = [cpc EXCEPT ![c] = "close"]
                         /\ UNCHANGED <<c_err, conn>>
  /\ UNCHANGED <<pvars, path_exists, lsock, backlog, c_conn_at, c_import_calls,
                 c_import_fd, c_frames, c_submitted, c_reading, rvvars>>
  /\ UNCHANGED <<pxvars, c_closed, c_color, c_cmdbuf, imported_image,
                 imported_memory, c_images, c_memories, c_recreate,
                 c_teardown, fdvars, alvars, morevars>>
  /\ Step(c, "recvmsg") /\ UNCHANGED c_bind_offset
  /\ UNCHANGED ltvars
  /\ UNCHANGED tdvars
  /\ UNCHANGED ilvars

\* ::close(external_socket); return imported_fd
Import_close(c) ==
  /\ cpc[c] = "close"
  /\ conn' = [conn EXCEPT ![c] = "closed"]
  /\ c_closed' = [c_closed EXCEPT ![c] = @ \cup receive_importable_fd_closes]
  /\ cpc' = [cpc EXCEPT ![c] = "allocate"]
  /\ UNCHANGED <<pvars, path_exists, lsock, backlog, chan, c_fd, c_err,
                 c_conn_at, c_recv_calls, c_import_calls, c_import_fd, c_frames,
                 c_submitted, c_reading, rvvars>>
  /\ UNCHANGED <<pxvars, c_ctrunc, c_loge, c_color, c_cmdbuf,
                 imported_image, imported_memory, c_images, c_memories,
                 c_recreate, c_teardown, fdvars, alvars, morevars>>
  /\ Step(c, "close") /\ UNCHANGED c_bind_offset
  /\ UNCHANGED ltvars
  /\ UNCHANGED tdvars
  /\ UNCHANGED ilvars

\* import_memory: allocateMemory with ImportMemoryFdInfoKHR.setFd(imported_fd)
Import_allocateMemory(c) ==
  /\ cpc[c] = "allocate"
  /\ c_import_calls' = [c_import_calls EXCEPT ![c] = @ + 1]
  /\ c_import_fd' = [c_import_fd EXCEPT ![c] = c_fd[c]]
  /\ imported_memory' = [imported_memory EXCEPT ![c] = "live"]
  /\ c_memories' = [c_memories EXCEPT ![c] = @ + 1]
  /\ cpc' = [cpc EXCEPT ![c] = "bind"]
  /\ UNCHANGED <<pvars, osvars, c_fd, c_err, c_conn_at, c_recv_calls, c_frames,
                 c_submitted, c_reading, rvvars>>
  /\ UNCHANGED <<pxvars, c_closed, c_ctrunc, c_loge, c_color, c_cmdbuf,
                 imported_image, c_images, c_recreate, c_teardown, fdvars,
                 alvars, morevars>>
  /\ Step(c, "allocateMemory") /\ UNCHANGED c_bind_offset
  /\ UNCHANGED ltvars
  /\ UNCHANGED tdvars
  /\ UNCHANGED ilvars

\* bindImageMemory, HPPImage and HPPImageView; prepare() returns true
Import_bind(c) ==
  /\ cpc[c] = "bind"
  /\ cpc' = [cpc EXCEPT ![c] = "prepared"]
  /\ UNCHANGED <<pvars, osvars, c_fd, c_err, c_conn_at, c_recv_calls,
                 c_import_calls, c_import_fd, c_frames, c_submitted, c_reading,
                 rvvars>>
  /\ UNCHANGED <<pxvars, cxvars, fdvars, alvars, morevars>>
  /\ c_steps' = [c_steps EXCEPT ![c] = @ \o create_imported_image_tail]
  /\ c_bind_offset' = [c_bind_offset EXCEPT ![c] = bind_offset]
  /\ UNCHANGED ltvars
  /\ UNCHANGED tdvars
  /\ UNCHANGED ilvars

\* update(): record draw() and submit
Import_update(c) ==
  /\ cpc[c] = "prepared"
  /\ c_frames[c] < MaxFrames
  /\ c_frames' = [c_frames EXCEPT ![c] = @ + 1]
  /\ c_submitted' = [c_submitted EXCEPT ![c] = @ + 1]
  /\ c_cmdbuf' = [c_cmdbuf EXCEPT ![c] = Import_draw]
  /\ UNCHANGED <<pvars, osvars, cpc, c_fd, c_err, c_conn_at, c_recv_calls,
                 c_import_calls, c_import_fd, c_reading, rvvars>>
  /\ UNCHANGED <<pxvars, c_closed, c_ctrunc, c_loge, c_color,
                 imported_image, imported_memory, c_images, c_memories,
                 c_recreate, c_teardown, fdvars, alvars, morevars>>
  /\ Step(c, "update") /\ UNCHANGED c_bind_offset
  /\ c_set_layout' = [c_set_layout EXCEPT ![c] = Import_draw_set_layout]
  /\ c_rt_layout' = [c_rt_layout EXCEPT ![c] =
                       set_layouts(@, Import_draw_set_layout, 0)]
  /\ UNCHANGED <<p_set_layout, p_rt_layout, fd_set_layout, fd_rt_layout>>
  /\ UNCHANGED tdvars
  /\ UNCHANGED ilvars

\* the consumer's queue starts the next submitted command buffer when it is
\* idle: submit() passes no semaphore or fence shared with the producer
Import_queue_starts_fenced(c) == c_submitted[c] > 0 /\ ~c_reading[c] /\ ~p_writing
Import_queue_starts(c) == c_submitted[c] > 0 /\ ~c_reading[c]

Import_gpu_begin(c) ==
  /\ Import_queue_starts(c)
  /\ c_submitted' = [c_submitted EXCEPT ![c] = @ - 1]
  /\ c_reading' = [c_reading EXCEPT ![c] = TRUE]
  /\ UNCHANGED <<pvars, osvars, cpc, c_fd, c_err, c_conn_at, c_recv_calls,
                 c_import_calls, c_import_fd, c_frames, rvvars>>
  /\ UNCHANGED <<pxvars, cxvars, fdvars, alvars, morevars>>
  /\ UNCHANGED cyvars
  /\ UNCHANGED ltvars
  /\ UNCHANGED tdvars
  /\ UNCHANGED ilvars

Import_gpu_end(c) ==
  /\ c_reading[c]
  /\ c_reading' = [c_reading EXCEPT ![c] = FALSE]
  /\ \E v \in copy_outcomes(c_cmdbuf[c], p_copies, p_writing) :
       c_color' = [c_color EXCEPT ![c] = v]
  /\ UNCHANGED <<pvars, osvars, cpc, c_fd, c_err, c_conn_at, c_recv_calls,
                 c_import_calls, c_import_fd, c_frames, c_submitted, rvvars>>
  /\ UNCHANGED <<pxvars, c_closed, c_ctrunc, c_loge, c_cmdbuf,
                 imported_image, imported_memory, c_images, c_memories,
                 c_recreate, c_teardown, fdvars, alvars, morevars>>
  /\ UNCHANGED cyvars
  /\ UNCHANGED ltvars
  /\ UNCHANGED tdvars
  /\ imported_layout' = [imported_layout EXCEPT ![c] =
                           layout_after(@, c_cmdbuf[c], "imported")]

\* ------------------------------------------------- lifecycle of a sample
\* ~ExternalMemoryFDExport: destroyImage, then freeMemory, each after a test
\* of the handle against VK_NULL_HANDLE
Export_destructor_memory_first(img, mem) ==
  (IF mem # "null" THEN <<"freeMemory">> ELSE <<>>) \o
  (IF img # "null" THEN <<"destroyImage">> ELSE <<>>)
Export_destructor(img, mem) ==
  (IF img # "null" THEN <<"destroyImage">> ELSE <<>>) \o
  (IF mem # "null" THEN <<"freeMemory">> ELSE <<>>)

\* ~ExternalMemoryFDImport: the same two steps on the imported handles
Import_destructor(img, mem) ==
  (IF img # "null" THEN <<"destroyImage">> ELSE <<>>) \o
  (IF mem # "null" THEN <<"freeMemory">> ELSE <<>>)

\* ~ExternalMemoryFDImport calls ::close on nothing
Import_destructor_closes == {}

\* ~ExternalMemoryFD: exportable_image.reset(), then vmaDestroyPool(.., *pool)
\* without a test of pool; with pool == nullptr the dereference is undefined:
\* the process crashes (ub = "crash") or vmaDestroyPool is called with an
\* indeterminate handle (ub = "proceeds")
FD_destructor(img, pool, ub) ==
  (IF img # "null" THEN <<"destroyImage">> ELSE <<>>) \o
  (IF pool # "null" THEN <<"vmaDestroyPool">>
   ELSE IF ub = "proceeds" THEN <<"vmaDestroyPool(indeterminate)">> ELSE <<>>)

\* after the body of ~ExternalMemoryFDExport the members are destroyed in the
\* reverse order of their declaration: hpp_exportable_image_view, then
\* hpp_exportable_image (both are set once the image was created), then the
\* two handles, whose destruction does nothing
Export_members(img) ==
  IF img # "null" THEN <<"~HPPImageView", "~HPPImage">> ELSE <<>>

\* the same for hpp_imported_image_view and hpp_imported_image
Import_members(img) ==
  IF img # "null" THEN <<"~HPPImageView", "~HPPImage">> ELSE <<>>

\* after the body of ~ExternalMemoryFD: exportable_image_view, then
\* exportable_image, which the body has reset already, then pool
FD_members(img) ==
  IF img # "null" THEN <<"~HPPImageView">> ELSE <<>>

Has(log, ev) == \E i \in 1..Len(log) : log[i] = ev

\* the framework destroys the sample between two calls of its handlers
Export_destroy ==
  /\ launched = "pair"
  /\ ppc \in {"constructed", "prepared"}
  /\ LET log == Export_destructor(exportable_image, exportable_memory) IN
       /\ p_teardown' = p_teardown \o log
       /\ exportable_image' = IF Has(log, "destroyImage") THEN "destroyed"
                               ELSE exportable_image
       /\ exportable_memory' = IF Has(log, "freeMemory") THEN "freed"
                                ELSE exportable_memory
  /\ ppc' = "destroyed"
  /\ UNCHANGED <<exported, p_frames, p_submitted, p_writing, p_copies, p_waited,
                 p_fd, p_conn, p_send_result, p_err, p_log, p_export_calls,
                 p_send_calls, tstate, osvars, cvars, rvvars>>
  /\ UNCHANGED <<p_closed, p_cmdbuf, p_images, p_memories, p_recreate, cxvars,
                 fdvars, alvars, morevars>>
  /\ UNCHANGED cyvars
  /\ UNCHANGED ltvars
  /\ p_members' = p_members \o Export_members(exportable_image)
  /\ UNCHANGED <<c_members, fd_members>>
  /\ UNCHANGED ilvars

\* a further call of create_exportable_image() or create_exportable_memory()
\* on the prepared instance (both are private: a second prepare())
Export_recreate ==
  /\ launched = "pair"
  /\ ppc = "prepared" /\ p_recreate = "none"
  /\ \E op \in {"create_exportable_image", "create_exportable_memory"} :
       /\ p_recreate' = op
       /\ IF op = "create_exportable_image"
          THEN IF ~create_exportable_image_pre(exportable_image)
               THEN ppc' = "aborted" /\ UNCHANGED <<p_images, p_memories>>
               ELSE /\ p_images' = p_images + 1
                    /\ IF ~create_exportable_memory_pre(exportable_memory)
                       THEN ppc' = "aborted" /\ UNCHANGED p_memories
                       ELSE p_memories' = p_memories + 1 /\ UNCHANGED ppc
          ELSE /\ UNCHANGED p_images
               /\ IF ~create_exportable_memory_pre(exportable_memory)
                  THEN ppc' = "aborted" /\ UNCHANGED p_memories
                  ELSE p_memories' = p_memories + 1 /\ UNCHANGED ppc
  /\ UNCHANGED <<exported, exportable_image, exportable_memory, p_frames,
                 p_submitted, p_writing, p_copies, p_waited, p_fd, p_conn,
                 p_send_result, p_err, p_log, p_export_calls, p_send_calls,
                 tstate, osvars, cvars, rvvars>>
  /\ UNCHANGED <<p_closed, p_cmdbuf, p_teardown, cxvars, fdvars, alvars, morevars>>
  /\ UNCHANGED cyvars
  /\ UNCHANGED ltvars
  /\ UNCHANGED tdvars
  /\ UNCHANGED ilvars

Import_destroy(c) ==
  /\ launched = "pair"
  /\ cpc[c] \in {"constructed", "prepared"}
  /\ LET log == Import_destructor(imported_image[c], imported_memory[c]) IN
       /\ c_teardown' = [c_teardown EXCEPT ![c] = @ \o log]
       /\ imported_image' = [imported_image EXCEPT ![c] =
                               IF Has(log, "destroyImage") THEN "destroyed" ELSE @]
       /\ imported_memory' = [imported_memory EXCEPT ![c] =
                                IF Has(log, "freeMemory") THEN "freed" ELSE @]
  /\ c_closed' = [c_closed EXCEPT ![c] = @ \cup Import_destructor_closes]
  /\ cpc' = [cpc EXCEPT ![c] = "destroyed"]
  /\ UNCHANGED <<pvars, osvars, c_fd, c_err, c_conn_at, c_recv_calls,
                 c_import_calls, c_import_fd, c_frames, c_submitted, c_reading,
                 rvvars>>
  /\ UNCHANGED <<pxvars, c_ctrunc, c_loge, c_color, c_cmdbuf, c_images,
                 c_memories, c_recreate, fdvars, alvars, morevars>>
  /\ UNCHANGED cyvars
  /\ UNCHANGED ltvars
  /\ c_members' = [c_members EXCEPT ![c] = @ \o Import_members(imported_image[c])]
  /\ UNCHANGED <<p_members, fd_members>>
  /\ UNCHANGED ilvars

\* a further call of create_imported_image() or import_memory() on the
\* prepared instance; import_memory goes on to receive_importable_fd when its
\* assertions pass
Import_recreate(c) ==
  /\ launched = "pair"
  /\ cpc[c] = "prepared" /\ c_recreate[c] = "none"
  /\ \E op \in {"create_imported_image", "import_memory"} :
       /\ c_recreate' = [c_recreate EXCEPT ![c] = op]
       /\ IF op = "create_imported_image"
             /\ ~create_imported_image_pre(imported_image[c])
          THEN ConsumerAbort(c, "assert") /\ UNCHANGED c_images
          ELSE /\ c_images' = [c_images EXCEPT ![c] =
                                 IF op = "create_imported_image" THEN @ + 1 ELSE @]
               /\ IF ~import_memory_pre(imported_memory[c], imported_image[c])
                  THEN ConsumerAbort(c, "assert")
                  ELSE cpc' = [cpc EXCEPT ![c] = "socket"] /\ UNCHANGED c_err
  /\ UNCHANGED <<pvars, osvars, c_fd, c_conn_at, c_recv_calls, c_import_calls,
                 c_import_fd, c_frames, c_submitted, c_reading, rvvars>>
  /\ UNCHANGED <<pxvars, c_closed, c_ctrunc, c_loge, c_color, c_cmdbuf,
                 imported_image, imported_memory, c_memories, c_teardown,
                 fdvars, alvars, morevars>>
  /\ UNCHANGED cyvars
  /\ UNCHANGED ltvars
  /\ UNCHANGED tdvars
  /\ UNCHANGED ilvars

\* ------------------------------------------- the standalone sample
\* create_exportable_image: assert(exportable_image == nullptr)
FD_create_exportable_image_pre(img) == img = "null"

\* create_memory_pool: assert(pool == nullptr)
create_memory_pool_pre(pool) == pool = "null"

\* prepare(): returns false when VulkanSample::prepare does; otherwise
\* create_exportable_image (create_memory_pool, VK_CHECK of the VMA results,
\* the image built in the pool) and export_memory (vkGetMemoryFdKHR)
FD_prepare ==
  /\ launched = "fd"
  /\ fd_pc = "constructed"
  /\ \E base_ok \in BOOLEAN, res \in {"success", "error"}, fd \in Fds :
       IF ~base_ok
       THEN /\ fd_pc' = "unprepared"
            /\ UNCHANGED <<fd_pool, fd_image, fd_fd, fd_images, fd_pools>>
       ELSE /\ FD_create_exportable_image_pre(fd_image)
            /\ create_memory_pool_pre(fd_pool)
            /\ IF res = "error"
               THEN /\ fd_pc' = "aborted"
                    /\ UNCHANGED <<fd_pool, fd_image, fd_fd, fd_images, fd_pools>>
               ELSE /\ fd_pool' = "live" /\ fd_pools' = fd_pools + 1
                    /\ fd_image' = "live" /\ fd_images' = fd_images + 1
                    /\ fd_fd < 0
                    /\ fd_fd' = fd
                    /\ fd_pc' = "prepared"
  /\ UNCHANGED <<launched, fd_frames, fd_cmdbuf, fd_recreate, fd_teardown>>
  /\ UNCHANGED <<pvars, osvars, cvars, rvvars, pxvars, cxvars, alvars, morevars>>
  /\ UNCHANGED cyvars
  /\ UNCHANGED ltvars
  /\ UNCHANGED tdvars
  /\ UNCHANGED ilvars

\* update(): record draw() and submit
FD_update ==
  /\ launched = "fd"
  /\ fd_pc = "prepared"
  /\ fd_frames < MaxFrames
  /\ fd_frames' = fd_frames + 1
  /\ fd_cmdbuf' = FD_draw
  /\ UNCHANGED <<launched, fd_pc, fd_pool, fd_image, fd_fd, fd_images, fd_pools,
                 fd_recreate, fd_teardown>>
  /\ UNCHANGED <<pvars, osvars, cvars, rvvars, pxvars, cxvars, alvars, morevars>>
  /\ UNCHANGED cyvars
  /\ fd_set_layout' = FD_draw_set_layout
  /\ fd_rt_layout' = set_layouts(fd_rt_layout, FD_draw_set_layout, 0)
  /\ UNCHANGED <<p_set_layout, p_rt_layout, c_set_layout, c_rt_layout>>
  /\ UNCHANGED tdvars
  /\ UNCHANGED ilvars

\* a further call of create_exportable_image() or create_memory_pool() on
\* the prepared instance
FD_recreate ==
  /\ launched = "fd"
  /\ fd_pc = "prepared" /\ fd_recreate = "none"
  /\ \E op \in {"create_exportable_image", "create_memory_pool"} :
       /\ fd_recreate' = op
       /\ IF op = "create_exportable_image"
             /\ ~FD_create_exportable_image_pre(fd_image)
          THEN fd_pc' = "aborted" /\ UNCHANGED <<fd_images, fd_pools>>
          ELSE IF ~create_memory_pool_pre(fd_pool)
               THEN fd_pc' = "aborted" /\ UNCHANGED <<fd_images, fd_pools>>
               ELSE /\ fd_pools' = fd_pools + 1
                    /\ fd_images' = IF op = "create_exportable_image"
                                     THEN fd_images + 1 ELSE fd_images
                    /\ UNCHANGED fd_pc
  /\ UNCHANGED <<launched, fd_pool, fd_image, fd_fd, fd_frames, fd_cmdbuf,
                 fd_teardown>>
  /\ UNCHANGED <<pvars, osvars, cvars, rvvars, pxvars, cxvars, alvars, morevars>>
  /\ UNCHANGED cyvars
  /\ UNCHANGED ltvars
  /\ UNCHANGED tdvars
  /\ UNCHANGED ilvars

FD_destroy ==
  /\ launched = "fd"
  /\ fd_pc \in {"constructed", "unprepared", "prepared"}
  /\ \E ub \in {"crash", "proceeds"} :
       LET log == FD_destructor(fd_image, fd_pool, ub) IN
       /\ fd_teardown' = fd_teardown \o log
       /\ fd_image' = IF Has(log, "destroyImage") THEN "destroyed" ELSE fd_image
       /\ fd_pool' = IF Has(log, "vmaDestroyPool") THEN "destroyed" ELSE fd_pool
       /\ fd_pc' = IF fd_pool = "null" /\ ub = "crash" THEN "crashed"
                   ELSE "destroyed"
  /\ UNCHANGED <<launched, fd_fd, fd_frames, fd_cmdbuf, fd_images, fd_pools,
                 fd_recreate>>
  /\ UNCHANGED <<pvars, osvars, cvars, rvvars, pxvars, cxvars, alvars, morevars>>
  /\ UNCHANGED cyvars
  /\ UNCHANGED ltvars
  /\ fd_members' = IF fd_pc' = "destroyed"
                   THEN fd_members \o FD_members(fd_image) ELSE fd_members
  /\ UNCHANGED <<p_members, c_members>>
  /\ UNCHANGED ilvars

\* ------------------------------------------- sizes of the allocations
Extents == [width : 1..MaxDim, height : 1..MaxDim]

\* get_image_size(): width * height * channel_count * channel_depth (a
\* uint32_t product; with extents up to MaxDim it stays far below 2^32)
get_image_size(extent) ==
  extent.width * extent.height * channel_count * channel_depth

\* getImageMemoryRequirements(image).size of a linear image: the rows may be
\* padded by the driver
mem_reqs_size(extent, pad) ==
  (extent.width + pad) * extent.height * channel_count * channel_depth

\* allocateMemory of the exporter: success or an error code
export_allocate_results == {"success", "error"}

\* allocateMemory with ImportMemoryFdInfoKHR: success or an exception; with
\* an allocationSize other than the one the memory was exported with the
\* call is invalid usage, nothing in import_memory checks it and the driver's
\* behaviour is undefined (success, error or crash)
import_allocate_results(exported_size, size) ==
  IF size = exported_size THEN {"success", "error"}
  ELSE {"success", "error", "crash"}

\* create_exportable_memory: allocationSize = get_image_size() and
\* assert(result == vk::Result::eSuccess)
Alloc_create_exportable_memory ==
  /\ al_pc = "start"
  /\ al_p_size' = get_image_size(al_p_extent)
  /\ \E res \in export_allocate_results :
       al_pc' = IF res = "success" THEN "exported" ELSE "aborted"
  /\ UNCHANGED <<al_p_extent, al_c_extent, al_pad, al_c_size>>
  /\ UNCHANGED <<pvars, osvars, cvars, rvvars, pxvars, cxvars, fdvars, morevars>>
  /\ UNCHANGED cyvars
  /\ UNCHANGED ltvars
  /\ UNCHANGED tdvars
  /\ UNCHANGED ilvars

\* import_memory: allocationSize = mem_reqs.size of the consumer's own image
Alloc_import_memory ==
  /\ al_pc = "exported"
  /\ LET size == mem_reqs_size(al_c_extent, al_pad) IN
       /\ al_c_size' = size
       /\ \E res \in import_allocate_results(al_p_size, size) :
            al_pc' = CASE res = "success" -> "imported"
                       [] res = "error" -> "failed"
                       [] OTHER -> "aborted"
  /\ UNCHANGED <<al_p_extent, al_c_extent, al_pad, al_p_size>>
  /\ UNCHANGED <<pvars, osvars, cvars, rvvars, pxvars, cxvars, fdvars, morevars>>
  /\ UNCHANGED cyvars
  /\ UNCHANGED ltvars
  /\ UNCHANGED tdvars
  /\ UNCHANGED ilvars

\* create_imported_image: bindImageMemory(imported_image, imported_memory, 0)
Alloc_bindImageMemory ==
  /\ al_pc = "imported"
  /\ al_pc' = "bound"
  /\ UNCHANGED <<al_p_extent, al_c_extent, al_pad, al_p_size, al_c_size>>
  /\ UNCHANGED <<pvars, osvars, cvars, rvvars, pxvars, cxvars, fdvars, morevars>>
  /\ UNCHANGED cyvars
  /\ UNCHANGED ltvars
  /\ UNCHANGED tdvars
  /\ UNCHANGED ilvars

\* ------------------------------------------- choice of the memory type
MemTypes == 0..(NumMemTypes - 1)
HostNone == [host_visible |-> FALSE, host_coherent |-> FALSE]
MemProps == [host_visible : BOOLEAN, host_coherent : BOOLEAN]
TypeMasks == (SUBSET MemTypes) \ {{}}

\* vk::MemoryPropertyFlagBits::eHostVisible | eHostCoherent
host_visible_coherent(pr) == pr.host_visible /\ pr.host_coherent

\* HPPPhysicalDevice::get_memory_type(bits, properties): the memory types of
\* the requirement mask that have the properties; it fails when there is none
get_memory_type(bits, props) ==
  {t \in bits : host_visible_coherent(props[t])}

\* vmaFindMemoryTypeIndexForBufferInfo with VMA_MEMORY_USAGE_AUTO and no
\* required flags: a memory type the example buffer can use, whatever its
\* properties
vmaFindMemoryTypeIndexForBufferInfo(bits, props) == bits

\* create_exportable_memory: memoryTypeIndex = get_memory_type(...) (throws
\* when no type fits), allocateMemory and assert(result == eSuccess)
MemType_create_exportable_memory ==
  /\ mt_pc = "start" /\ mt_sample = "export"
  /\ LET found == get_memory_type(mt_image_bits, mt_props) IN
       IF found = {}
       THEN mt_pc' = "aborted" /\ UNCHANGED mt_type
       ELSE \E t \in found, res \in export_allocate_results :
              IF res = "success"
              THEN mt_pc' = "allocated" /\ mt_type' = t
              ELSE mt_pc' = "aborted" /\ UNCHANGED mt_type
  /\ UNCHANGED <<mt_sample, mt_props, mt_image_bits, mt_buffer_bits,
                 mt_pool_type>>
  /\ UNCHANGED <<pvars, osvars, cvars, rvvars, pxvars, cxvars, fdvars, alvars,
                 rrvars, rtvars, rsvars, szvars,
                 twvars>>
  /\ UNCHANGED cyvars
  /\ UNCHANGED ltvars
  /\ UNCHANGED tdvars
  /\ UNCHANGED ilvars

\* import_memory: setMemoryTypeIndex(get_memory_type(...)), allocateMemory
\* (an exception of either ends the process)
MemType_import_memory ==
  /\ mt_pc = "start" /\ mt_sample = "import"
  /\ LET found == get_memory_type(mt_image_bits, mt_props) IN
       IF found = {}
       THEN mt_pc' = "aborted" /\ UNCHANGED mt_type
       ELSE \E t \in found, res \in {"success", "error"} :
              IF res = "success"
              THEN mt_pc' = "allocated" /\ mt_type' = t
              ELSE mt_pc' = "aborted" /\ UNCHANGED mt_type
  /\ UNCHANGED <<mt_sample, mt_props, mt_image_bits, mt_buffer_bits,
                 mt_pool_type>>
  /\ UNCHANGED <<pvars, osvars, cvars, rvvars, pxvars, cxvars, fdvars, alvars,
                 rrvars, rtvars, rsvars, szvars,
                 twvars>>
  /\ UNCHANGED cyvars
  /\ UNCHANGED ltvars
  /\ UNCHANGED tdvars
  /\ UNCHANGED ilvars

\* create_memory_pool: the type found for the example buffer becomes
\* poolCreateInfo.memoryTypeIndex; VK_CHECK ends the process on an error of
\* vmaFindMemoryTypeIndexForBufferInfo or vmaCreatePool
MemType_create_memory_pool ==
  /\ mt_pc = "start" /\ mt_sample = "fd"
  /\ \E res \in {"success", "error"},
        t \in vmaFindMemoryTypeIndexForBufferInfo(mt_buffer_bits, mt_props) :
       IF res = "success"
       THEN mt_pc' = "pool" /\ mt_pool_type' = t
       ELSE mt_pc' = "aborted" /\ UNCHANGED mt_pool_type
  /\ UNCHANGED <<mt_sample, mt_props, mt_image_bits, mt_buffer_bits, mt_type>>
  /\ UNCHANGED <<pvars, osvars, cvars, rvvars, pxvars, cxvars, fdvars, alvars,
                 rrvars, rtvars, rsvars, szvars,
                 twvars>>
  /\ UNCHANGED cyvars
  /\ UNCHANGED ltvars
  /\ UNCHANGED tdvars
  /\ UNCHANGED ilvars

\* create_exportable_image: HPPImageBuilder with_vma_pool(*pool) and
\* with_vma_required_flags(eHostCoherent | eHostVisible); for an allocation
\* in a custom pool the allocator ignores the required flags and the image's
\* memoryTypeBits and takes the memory from the pool's type
MemType_build_image ==
  /\ mt_pc = "pool"
  /\ \E res \in {"success", "error"} :
       IF res = "success"
       THEN mt_pc' = "allocated" /\ mt_type' = mt_pool_type
       ELSE mt_pc' = "aborted" /\ UNCHANGED mt_type
  /\ UNCHANGED <<mt_sample, mt_props, mt_image_bits, mt_buffer_bits,
                 mt_pool_type>>
  /\ UNCHANGED <<pvars, osvars, cvars, rvvars, pxvars, cxvars, fdvars, alvars,
                 rrvars, rtvars, rsvars, szvars,
                 twvars>>
  /\ UNCHANGED cyvars
  /\ UNCHANGED ltvars
  /\ UNCHANGED tdvars
  /\ UNCHANGED ilvars

\* ------------------------------------------ a further run of the producer
\* the producer process has ended (it completed the hand-off and was closed,
\* or it was stopped by an assertion) and the program is started again: a new
\* process, a new instance; what the earlier run left in the file system stays
Export_rerun ==
  /\ p_runs < MaxReruns
  /\ \/ ppc = "aborted"
     \/ ppc = "prepared" /\ tstate = "Closed"
  /\ p_runs' = p_runs + 1
  /\ p_stale' = path_exists
  /\ ppc' = "constructed" /\ exported' = FALSE
  /\ exportable_image' = "null" /\ exportable_memory' = "null"
  /\ p_frames' = 0 /\ p_submitted' = 0 /\ p_writing' = FALSE /\ p_copies' = 0
  /\ p_waited' = FALSE /\ p_fd' = NoFd /\ p_conn' = NoPeer
  /\ p_send_result' = 2 /\ p_err' = "none" /\ p_log' = <<>>
  /\ p_export_calls' = 0 /\ p_send_calls' = 0 /\ tstate' = "Idle"
  /\ p_closed' = {} /\ p_cmdbuf' = <<>> /\ p_images' = 0 /\ p_memories' = 0
  /\ p_recreate' = "none" /\ p_teardown' = <<>>
  /\ lsock' = "none"
  /\ UNCHANGED <<path_exists, backlog, conn, chan, cvars, rvvars, cxvars,
                 fdvars, alvars, mtvars, rtvars, rsvars, szvars,
                 twvars>>
  /\ UNCHANGED cyvars
  /\ p_set_layout' = <<>> /\ p_rt_layout' = "Undefined"
  /\ UNCHANGED <<c_set_layout, c_rt_layout, fd_set_layout, fd_rt_layout>>
  /\ p_members' = <<>>
  /\ UNCHANGED <<c_members, fd_members>>
  /\ UNCHANGED ilvars

\* --------------------------------------- one message, sender to receiver
\* send_fd: the control message is built and given to sendmsg with the
\* 1-byte payload
RoundTrip_send_fd ==
  /\ rt_pc = "start"
  /\ rt_msg' = send_fd_msg(rt_fd)
  /\ rt_pc' = "sent"
  /\ UNCHANGED <<rt_fd, rt_result>>
  /\ UNCHANGED <<pvars, osvars, cvars, rvvars, pxvars, cxvars, fdvars, alvars,
                 mtvars, rrvars, rsvars, szvars,
                 twvars>>
  /\ UNCHANGED cyvars
  /\ UNCHANGED ltvars
  /\ UNCHANGED tdvars
  /\ UNCHANGED ilvars

\* recvmsg of receive_fd returned n > 0: the buffer holds what the kernel
\* delivered for the message
RoundTrip_recvmsg ==
  /\ rt_pc = "sent"
  /\ \E m \in Delivered(rt_msg) : rt_msg' = m
  /\ rt_pc' = "received"
  /\ UNCHANGED <<rt_fd, rt_result>>
  /\ UNCHANGED <<pvars, osvars, cvars, rvvars, pxvars, cxvars, fdvars, alvars,
                 mtvars, rrvars, rsvars, szvars,
                 twvars>>
  /\ UNCHANGED cyvars
  /\ UNCHANGED ltvars
  /\ UNCHANGED tdvars
  /\ UNCHANGED ilvars

\* receive_fd after recvmsg
RoundTrip_receive_fd ==
  /\ rt_pc = "received"
  /\ rt_result' = receive_fd(rt_msg)
  /\ rt_pc' = "returned"
  /\ UNCHANGED <<rt_fd, rt_msg>>
  /\ UNCHANGED <<pvars, osvars, cvars, rvvars, pxvars, cxvars, fdvars, alvars,
                 mtvars, rrvars, rsvars, szvars,
                 twvars>>
  /\ UNCHANGED cyvars
  /\ UNCHANGED ltvars
  /\ UNCHANGED tdvars
  /\ UNCHANGED ilvars

\* ------------------------------------------- frames after a resize
\* get_image_extent(): the shared image is created with the surface extent
\* that holds during prepare()
Resize_prepare ==
  /\ rs_pc = "constructed"
  /\ rs_shared' = rs_surface
  /\ rs_pc' = "prepared"
  /\ UNCHANGED <<rs_sample, rs_surface, rs_region, rs_frames>>
  /\ UNCHANGED <<pvars, osvars, cvars, rvvars, pxvars, cxvars, cyvars, ltvars,
                 fdvars, alvars, mtvars, rrvars, rtvars, szvars,
                 twvars>>
  /\ UNCHANGED tdvars
  /\ UNCHANGED ilvars

\* the window is resized between two frames: the framework re-creates the
\* swapchain and the render targets with the new extent; no sample overrides
\* the handler, the shared image stays as prepare() created it
Resize_resize ==
  /\ rs_pc = "prepared"
  /\ \E e \in Extents : e # rs_surface /\ rs_surface' = e
  /\ UNCHANGED <<rs_pc, rs_sample, rs_shared, rs_region, rs_frames>>
  /\ UNCHANGED <<pvars, osvars, cvars, rvvars, pxvars, cxvars, cyvars, ltvars,
                 fdvars, alvars, mtvars, rrvars, rtvars, szvars,
                 twvars>>
  /\ UNCHANGED tdvars
  /\ UNCHANGED ilvars

\* the extent test before the copy is recorded: ExternalMemoryFD has
\* assert(color_image.get_extent() == exportable_image->get_extent());
\* the export and import samples have no such test
copy_extent_checked(sample) == sample = "fd"

\* update() -> draw() -> copy: image_copy.extent = color_image.get_extent()
Resize_update ==
  /\ rs_pc = "prepared"
  /\ rs_frames < MaxFrames
  /\ IF copy_extent_checked(rs_sample) /\ rs_surface # rs_shared
     THEN rs_pc' = "aborted" /\ UNCHANGED <<rs_region, rs_frames>>
     ELSE /\ rs_region' = rs_surface
          /\ rs_frames' = rs_frames + 1
          /\ UNCHANGED rs_pc
  /\ UNCHANGED <<rs_sample, rs_surface, rs_shared>>
  /\ UNCHANGED <<pvars, osvars, cvars, rvvars, pxvars, cxvars, cyvars, ltvars,
                 fdvars, alvars, mtvars, rrvars, rtvars, szvars,
                 twvars>>
  /\ UNCHANGED tdvars
  /\ UNCHANGED ilvars

\* --------------------------------- get_image_size in machine arithmetic
\* an unsigned integer of n bytes is the sequence of its bytes, least
\* significant first; the operands of get_image_size are below 2^31
RECURSIVE Pow256(_)
Pow256(k) == IF k = 0 THEN 1 ELSE 256 * Pow256(k - 1)

Bytes(x, n) == [i \in 1..n |-> IF i <= 4 THEN (x \div Pow256(i - 1)) % 256 ELSE 0]

\* conversion of an unsigned integer to a type of n bytes: the low bytes, or
\* zero extension
Convert(a, n) == [i \in 1..n |-> IF i <= Len(a) THEN a[i] ELSE 0]

RECURSIVE ColumnSum(_, _, _, _)
ColumnSum(a, b, k, i) ==
  IF i > k THEN 0 ELSE a[i] * b[k + 1 - i] + ColumnSum(a, b, k, i + 1)

RECURSIVE MulFrom(_, _, _, _, _)
MulFrom(a, b, n, k, carry) ==
  IF k > n THEN <<>>
  ELSE LET sum == carry + ColumnSum(a, b, k, 1) IN
       <<sum % 256>> \o MulFrom(a, b, n, k + 1, sum \div 256)

\* a * b in an unsigned type of n bytes: the product modulo 2^(8n)
Mul(a, b, n) == MulFrom(Convert(a, n), Convert(b, n), n, 1, 0)

\* get_image_size(): extent.width * extent.height * channel_count *
\* channel_depth with uint32_t operands, multiplied left to right in
\* uint32_t; the result initialises a VkDeviceSize
get_image_size_bytes(extent) ==
  Convert(Mul(Mul(Mul(Bytes(extent.width, UINT32_BYTES),
                      Bytes(extent.height, UINT32_BYTES), UINT32_BYTES),
                  Bytes(channel_count, UINT32_BYTES), UINT32_BYTES),
              Bytes(channel_depth, UINT32_BYTES), UINT32_BYTES),
          DEVICESIZE_BYTES)

Size_get_image_size ==
  /\ sz_pc = "start"
  /\ sz_result' = get_image_size_bytes(sz_extent)
  /\ sz_pc' = "returned"
  /\ UNCHANGED sz_extent
  /\ UNCHANGED <<pvars, osvars, cvars, rvvars, pxvars, cxvars, cyvars, ltvars,
                 fdvars, alvars, mtvars, rrvars, rtvars, rsvars,
                 twvars>>
  /\ UNCHANGED tdvars
  /\ UNCHANGED ilvars

\* ----------------------------- several exporter instances, one process
\* the application creates an instance of the sample
Two_create(i) ==
  /\ tw_pc[i] = "none"
  /\ tw_pc' = [tw_pc EXCEPT ![i] = "constructed"]
  /\ UNCHANGED <<tw_exported, tw_frames, tw_waits, tw_exports>>
  /\ UNCHANGED <<pvars, osvars, cvars, rvvars, pxvars, cxvars, cyvars, ltvars,
                 fdvars, alvars, mtvars, rrvars, rtvars, rsvars, szvars>>
  /\ UNCHANGED tdvars
  /\ UNCHANGED ilvars

Two_prepare(i) ==
  /\ tw_pc[i] = "constructed"
  /\ tw_pc' = [tw_pc EXCEPT ![i] = "prepared"]
  /\ UNCHANGED <<tw_exported, tw_frames, tw_waits, tw_exports>>
  /\ UNCHANGED <<pvars, osvars, cvars, rvvars, pxvars, cxvars, cyvars, ltvars,
                 fdvars, alvars, mtvars, rrvars, rtvars, rsvars, szvars>>
  /\ UNCHANGED tdvars
  /\ UNCHANGED ilvars

\* update() of one instance, run to its end on the application's thread:
\* `static bool exported = false; if (!exported) { waitIdle();
\* export_memory(); exported = true; }'; export_memory either returns or an
\* assertion of send_exportable_fd ends the process
Two_update(i) ==
  /\ tw_pc[i] = "prepared"
  /\ tw_frames[i] < MaxFrames
  /\ tw_frames' = [tw_frames EXCEPT ![i] = @ + 1]
  /\ IF update_next(tw_exported) = "waitIdle"
     THEN /\ tw_waits' = [tw_waits EXCEPT ![i] = @ + 1]
          /\ tw_exports' = [tw_exports EXCEPT ![i] = @ + 1]
          /\ \E sent \in BOOLEAN :
               IF sent
               THEN tw_exported' = TRUE /\ UNCHANGED tw_pc
               ELSE /\ tw_pc' = [j \in Instances |-> "aborted"]
                    /\ UNCHANGED tw_exported
     ELSE UNCHANGED <<tw_exported, tw_pc, tw_waits, tw_exports>>
  /\ UNCHANGED <<pvars, osvars, cvars, rvvars, pxvars, cxvars, cyvars, ltvars,
                 fdvars, alvars, mtvars, rrvars, rtvars, rsvars, szvars>>
  /\ UNCHANGED tdvars
  /\ UNCHANGED ilvars

\* the application destroys the instance
Two_destroy(i) ==
  /\ tw_pc[i] \in {"constructed", "prepared"}
  /\ tw_pc' = [tw_pc EXCEPT ![i] = "destroyed"]
  /\ UNCHANGED <<tw_exported, tw_frames, tw_waits, tw_exports>>
  /\ UNCHANGED <<pvars, osvars, cvars, rvvars, pxvars, cxvars, cyvars, ltvars,
                 fdvars, alvars, mtvars, rrvars, rtvars, rsvars, szvars>>
  /\ UNCHANGED tdvars
  /\ UNCHANGED ilvars

\* ------------------------------------------------------- specifications
InitProducer ==
  /\ ppc = "constructed" /\ exported = FALSE
  /\ exportable_image = "null" /\ exportable_memory = "null"
  /\ p_frames = 0 /\ p_submitted = 0 /\ p_writing = FALSE /\ p_copies = 0
  /\ p_waited = FALSE /\ p_fd = NoFd /\ p_conn = NoPeer /\ p_send_result = 2
  /\ p_err = "none" /\ p_log = <<>> /\ p_export_calls = 0 /\ p_send_calls = 0
  /\ tstate = "Idle"

InitOS ==
  /\ lsock = "none" /\ backlog = <<>>
  /\ conn = [c \in Consumers |-> "none"]
  /\ chan = [c \in Consumers |-> <<>>]

InitConsumers ==
  /\ cpc = [c \in Consumers |-> "constructed"]
  /\ c_fd = [c \in Consumers |-> NoFd]
  /\ c_err = [c \in Consumers |-> "none"]
  /\ c_conn_at = [c \in Consumers |-> "none"]
  /\ c_recv_calls = [c \in Consumers |-> 0]
  /\ c_import_calls = [c \in Consumers |-> 0]
  /\ c_import_fd = [c \in Consumers |-> NoFd]
  /\ c_frames = [c \in Consumers |-> 0]
  /\ c_submitted = [c \in Consumers |-> 0]
  /\ c_reading = [c \in Consumers |-> FALSE]
  /\ c_steps = [c \in Consumers |-> <<>>]
  /\ c_bind_offset = [c \in Consumers |-> -1]

InitResources ==
  /\ p_closed = {} /\ p_cmdbuf = <<>> /\ p_images = 0 /\ p_memories = 0
  /\ p_recreate = "none" /\ p_teardown = <<>>
  /\ c_closed = [c \in Consumers |-> {}]
  /\ c_ctrunc = [c \in Consumers |-> FALSE]
  /\ c_loge = [c \in Consumers |-> "none"]
  /\ c_color = [c \in Consumers |-> NoFrame]
  /\ c_cmdbuf = [c \in Consumers |-> <<>>]
  /\ imported_image = [c \in Consumers |-> "null"]
  /\ imported_memory = [c \in Consumers |-> "null"]
  /\ c_images = [c \in Consumers |-> 0]
  /\ c_memories = [c \in Consumers |-> 0]
  /\ c_recreate = [c \in Consumers |-> "none"]
  /\ c_teardown = [c \in Consumers |-> <<>>]
  /\ p_set_layout = <<>> /\ p_rt_layout = "Undefined"
  /\ c_set_layout = [c \in Consumers |-> <<>>]
  /\ c_rt_layout = [c \in Consumers |-> "Undefined"]
  /\ fd_set_layout = <<>> /\ fd_rt_layout = "Undefined"
  /\ p_members = <<>> /\ c_members = [c \in Consumers |-> <<>>]
  /\ fd_members = <<>>
  /\ imported_layout = [c \in Consumers |-> "none"]

\* the standalone sample after construction
InitFD ==
  /\ fd_pc = "constructed" /\ fd_pool = "null" /\ fd_image = "null"
  /\ fd_fd = NoFd /\ fd_frames = 0 /\ fd_cmdbuf = <<>> /\ fd_images = 0
  /\ fd_pools = 0 /\ fd_recreate = "none" /\ fd_teardown = <<>>

NoExtent == [width |-> 0, height |-> 0]

InitAllocUnused ==
  /\ al_pc = "unused" /\ al_p_extent = NoExtent /\ al_c_extent = NoExtent
  /\ al_pad = 0 /\ al_p_size = 0 /\ al_c_size = 0

InitMemTypeUnused ==
  /\ mt_pc = "unused" /\ mt_sample = "none"
  /\ mt_props = [t \in MemTypes |-> HostNone]
  /\ mt_image_bits = {} /\ mt_buffer_bits = {}
  /\ mt_pool_type = -1 /\ mt_type = -1

InitRoundTripUnused ==
  rt_pc = "unused" /\ rt_fd = NoFd /\ rt_msg = NoMsg /\ rt_result = NoFd

InitResizeUnused ==
  /\ rs_pc = "unused" /\ rs_sample = "none" /\ rs_surface = NoExtent
  /\ rs_shared = NoExtent /\ rs_region = NoExtent /\ rs_frames = 0

InitSizeUnused ==
  sz_pc = "unused" /\ sz_extent = NoExtent /\ sz_result = <<>>

InitInstancesUnused ==
  /\ tw_exported = FALSE
  /\ tw_pc = [i \in Instances |-> "unused"]
  /\ tw_frames = [i \in Instances |-> 0]
  /\ tw_waits = [i \in Instances |-> 0]
  /\ tw_exports = [i \in Instances |-> 0]

InitFirstRun == p_runs = 0 /\ p_stale = FALSE

\* the variables of the further specifications, unused
InitMoreUnused ==
  /\ InitMemTypeUnused /\ InitFirstRun /\ InitRoundTripUnused
  /\ InitResizeUnused /\ InitSizeUnused /\ InitInstancesUnused

\* the two samples run as separate processes; the socket file may be left
\* over from an earlier run
Init ==
  /\ InitProducer /\ InitOS /\ InitConsumers
  /\ InitResources /\ InitFD /\ launched = "pair" /\ InitAllocUnused
  /\ path_exists \in BOOLEAN
  /\ InitMoreUnused
  /\ rv_pc = "unused" /\ rv_msg = NoMsg /\ rv_result = NoFd

Next ==
  \/ Export_prepare
  \/ Export_update
  \/ Export_gpu_begin
  \/ Export_gpu_end
  \/ Export_waitIdle
  \/ Export_export_memory
  \/ Export_socket
  \/ Export_bind
  \/ Export_listen
  \/ Export_accept
  \/ Export_send_fd
  \/ Export_close
  \/ \E c \in Consumers : Import_prepare(c)
  \/ \E c \in Consumers : Import_socket(c)
  \/ \E c \in Consumers : Import_connect(c)
  \/ \E c \in Consumers : Import_receive_fd(c)
  \/ \E c \in Consumers : Import_close(c)
  \/ \E c \in Consumers : Import_allocateMemory(c)
  \/ \E c \in Consumers : Import_bind(c)
  \/ \E c \in Consumers : Import_update(c)
  \/ \E c \in Consumers : Import_gpu_begin(c)
  \/ \E c \in Consumers : Import_gpu_end(c)

Spec == Init /\ [][Next]_vars

\* scheduling: the thread of every started process keeps running, and every
\* queue keeps executing the command buffers submitted to it
ProducerStep ==
  \/ Export_prepare \/ Export_update \/ Export_waitIdle
  \/ Export_export_memory \/ Export_socket \/ Export_bind \/ Export_listen
  \/ Export_accept \/ Export_send_fd \/ Export_close

ProducerGpu == Export_gpu_begin \/ Export_gpu_end

ConsumerStep(c) ==
  \/ Import_prepare(c) \/ Import_socket(c) \/ Import_connect(c)
  \/ Import_receive_fd(c) \/ Import_close(c) \/ Import_allocateMemory(c)
  \/ Import_bind(c) \/ Import_update(c)

ConsumerGpu(c) == Import_gpu_begin(c) \/ Import_gpu_end(c)

Fairness ==
  /\ WF_vars(ProducerStep) /\ WF_vars(ProducerGpu)
  /\ \A c \in Consumers : WF_vars(ConsumerStep(c)) /\ WF_vars(ConsumerGpu(c))

SpecLive == Init /\ [][Next]_vars /\ Fairness

\* the three samples with their whole life: either the exporter and the
\* importers are started, or the standalone sample is
InitSamples ==
  /\ InitProducer /\ InitOS /\ InitConsumers
  /\ InitResources /\ InitFD /\ launched \in {"pair", "fd"} /\ InitAllocUnused
  /\ path_exists \in BOOLEAN
  /\ InitMoreUnused
  /\ rv_pc = "unused" /\ rv_msg = NoMsg /\ rv_result = NoFd

NextSamples ==
  \/ launched = "pair" /\ Next
  \/ Export_destroy
  \/ Export_recreate
  \/ \E c \in Consumers : Import_destroy(c)
  \/ \E c \in Consumers : Import_recreate(c)
  \/ FD_prepare
  \/ FD_update
  \/ FD_recreate
  \/ FD_destroy

SpecSamples == InitSamples /\ [][NextSamples]_vars

\* one exporter and one importer on one device, each with the extent of its
\* own surface; the device pads the rows of a linear image by al_pad texels
InitAlloc ==
  /\ InitProducer /\ InitOS /\ InitConsumers
  /\ InitResources /\ InitFD /\ launched = "pair"
  /\ path_exists = FALSE
  /\ rv_pc = "unused" /\ rv_msg = NoMsg /\ rv_result = NoFd
  /\ al_pc = "start" /\ al_p_extent \in Extents /\ al_c_extent \in Extents
  /\ al_pad \in 0..MaxPad /\ al_p_size = 0 /\ al_c_size = 0
  /\ InitMoreUnused

NextAlloc ==
  \/ Alloc_create_exportable_memory
  \/ Alloc_import_memory
  \/ Alloc_bindImageMemory

SpecAlloc == InitAlloc /\ [][NextAlloc]_vars

\* one sample allocating the memory of its image on one device; every
\* Vulkan device has a memory type that is host-visible and host-coherent
InitMemType ==
  /\ InitProducer /\ InitOS /\ InitConsumers
  /\ InitResources /\ InitFD /\ launched = "pair" /\ InitAllocUnused
  /\ path_exists = FALSE
  /\ rv_pc = "unused" /\ rv_msg = NoMsg /\ rv_result = NoFd
  /\ mt_pc = "start" /\ mt_sample \in {"export", "import", "fd"}
  /\ mt_props \in [MemTypes -> MemProps]
  /\ \E t \in MemTypes : host_visible_coherent(mt_props[t])
  /\ mt_image_bits \in TypeMasks /\ mt_buffer_bits \in TypeMasks
  /\ mt_pool_type = -1 /\ mt_type = -1
  /\ InitFirstRun /\ InitRoundTripUnused /\ InitResizeUnused
  /\ InitSizeUnused /\ InitInstancesUnused

NextMemType ==
  \/ MemType_create_exportable_memory
  \/ MemType_import_memory
  \/ MemType_create_memory_pool
  \/ MemType_build_image

SpecMemType == InitMemType /\ [][NextMemType]_vars

\* the hand-off with the producer program started more than once
NextRerun == Next \/ Export_rerun

SpecRerun == Init /\ [][NextRerun]_vars

\* send_fd and receive_fd on every descriptor the producer can export
InitRoundTrip ==
  /\ InitProducer /\ InitOS /\ InitConsumers
  /\ InitResources /\ InitFD /\ launched = "pair" /\ InitAllocUnused
  /\ path_exists = FALSE
  /\ rv_pc = "unused" /\ rv_msg = NoMsg /\ rv_result = NoFd
  /\ InitMemTypeUnused /\ InitFirstRun /\ InitResizeUnused
  /\ InitSizeUnused /\ InitInstancesUnused
  /\ rt_pc = "start" /\ rt_fd \in 0..MaxSentFd
  /\ rt_msg = NoMsg /\ rt_result = NoFd

NextRoundTrip ==
  \/ RoundTrip_send_fd
  \/ RoundTrip_recvmsg
  \/ RoundTrip_receive_fd

SpecRoundTrip == InitRoundTrip /\ [][NextRoundTrip]_vars

\* one sample drawing frames while its window is resized
InitResize ==
  /\ InitProducer /\ InitOS /\ InitConsumers
  /\ InitResources /\ InitFD /\ launched = "pair" /\ InitAllocUnused
  /\ path_exists = FALSE
  /\ rv_pc = "unused" /\ rv_msg = NoMsg /\ rv_result = NoFd
  /\ InitMemTypeUnused /\ InitFirstRun /\ InitRoundTripUnused
  /\ InitSizeUnused /\ InitInstancesUnused
  /\ rs_pc = "constructed" /\ rs_sample \in {"export", "import", "fd"}
  /\ rs_surface \in Extents /\ rs_shared = NoExtent /\ rs_region = NoExtent
  /\ rs_frames = 0

NextResize ==
  \/ Resize_prepare
  \/ Resize_resize
  \/ Resize_update

SpecResize == InitResize /\ [][NextResize]_vars

\* get_image_size on the extents m * 2^s by n * 2^t
RECURSIVE Pow2(_)
Pow2(k) == IF k = 0 THEN 1 ELSE 2 * Pow2(k - 1)

Dimensions == {mm * Pow2(sh) : mm \in 1..MaxMantissa, sh \in 0..MaxShift}
SurfaceExtents == [width : Dimensions, height : Dimensions]

InitSize ==
  /\ InitProducer /\ InitOS /\ InitConsumers
  /\ InitResources /\ InitFD /\ launched = "pair" /\ InitAllocUnused
  /\ path_exists = FALSE
  /\ rv_pc = "unused" /\ rv_msg = NoMsg /\ rv_result = NoFd
  /\ InitMemTypeUnused /\ InitFirstRun /\ InitRoundTripUnused
  /\ InitResizeUnused /\ InitInstancesUnused
  /\ sz_pc = "start" /\ sz_extent \in SurfaceExtents /\ sz_result = <<>>

NextSize == Size_get_image_size

SpecSize == InitSize /\ [][NextSize]_vars

\* one process that creates, updates and destroys exporter instances
InitInstances ==
  /\ InitProducer /\ InitOS /\ InitConsumers
  /\ InitResources /\ InitFD /\ launched = "pair" /\ InitAllocUnused
  /\ path_exists = FALSE
  /\ rv_pc = "unused" /\ rv_msg = NoMsg /\ rv_result = NoFd
  /\ InitMemTypeUnused /\ InitFirstRun /\ InitRoundTripUnused
  /\ InitResizeUnused /\ InitSizeUnused
  /\ tw_exported = FALSE
  /\ tw_pc = [i \in Instances |-> "none"]
  /\ tw_frames = [i \in Instances |-> 0]
  /\ tw_waits = [i \in Instances |-> 0]
  /\ tw_exports = [i \in Instances |-> 0]

NextInstances ==
  \/ \E i \in Instances : Two_create(i)
  \/ \E i \in Instances : Two_prepare(i)
  \/ \E i \in Instances : Two_update(i)
  \/ \E i \in Instances : Two_destroy(i)

SpecInstances == InitInstances /\ [][NextInstances]_vars

\* receive_fd on any content of the receive buffer after recvmsg returned n > 0
InitMsg ==
  /\ InitProducer /\ InitOS /\ InitConsumers
  /\ InitResources /\ InitFD /\ launched = "pair" /\ InitAllocUnused
  /\ path_exists = FALSE
  /\ InitMoreUnused
  /\ rv_pc = "received" /\ rv_msg \in AllMsgs /\ rv_result = NoFd

Recv_receive_fd ==
  /\ rv_pc = "received"
  /\ rv_result' = receive_fd(rv_msg)
  /\ rv_pc' = "returned"
  /\ UNCHANGED <<pvars, osvars, cvars, rv_msg, pxvars, cxvars, fdvars, alvars, morevars>>
  /\ UNCHANGED cyvars
  /\ UNCHANGED ltvars
  /\ UNCHANGED tdvars
  /\ UNCHANGED ilvars

NextMsg == Recv_receive_fd

SpecMsg == InitMsg /\ [][NextMsg]_vars

\* ------------------------------------------------------------ properties
SendingPcs == {"socket", "bind", "listen", "accept", "send_fd", "close"}
ErrOf(op) == IF op = "sendmsg" THEN "send" ELSE op
Succeeded == {i \in 1..Len(p_log) : p_log[i][2] >= 0}
PreListen == {"Idle", "SocketCreated", "Bound"}

\* C1: the system calls of send_exportable_fd are made in the order socket,
\* bind, listen, accept, sendmsg, close, each at most once; a call is made only
\* when every earlier one returned without error; a call that returns an error
\* is the last one, the producer is stopped with that error; the transport
\* state is the one reached by the calls that succeeded.
C1_TransportOrder ==
  /\ Len(p_log) <= Len(SendOrder)
  /\ \A i \in 1..Len(p_log) :
       /\ p_log[i][1] = SendOrder[i]
       /\ i < Len(p_log) => p_log[i][2] >= 0
       /\ p_log[i][2] < 0 => ppc = "aborted" /\ p_err = ErrOf(p_log[i][1])
  /\ tstate = TStates[Cardinality(Succeeded) + 1]
  /\ ppc = "aborted" => Len(p_log) > 0 /\ p_log[Len(p_log)][2] < 0

\* C1 witness: accept succeeded, sendmsg failed, the producer stopped there
C1_Witness ==
  /\ ppc = "aborted" /\ p_err = "send"
  /\ Len(p_log) = 5 /\ tstate = "Connected"

\* C2: from the return of waitIdle to the close of the sockets (the fd is
\* obtained and sent in between) the first frame has been submitted, no
\* submitted work is unfinished and at least one copy into the exportable
\* image has finished; the fd is never obtained before waitIdle returned.
C2_SendAfterIdle ==
  /\ ppc \in {"export"} \cup SendingPcs =>
       /\ p_waited /\ p_frames >= 1
       /\ p_submitted = 0 /\ ~p_writing
       /\ p_copies >= 1
  /\ p_fd # NoFd => p_waited
  /\ p_send_result # 2 => p_fd # NoFd /\ p_waited /\ p_copies >= 1

\* C2 witness: the descriptor has just been sent
C2_Witness ==
  /\ ppc = "close" /\ p_send_result = PayloadLen
  /\ p_copies = 1

\* C3: a consumer holds a received descriptor, or has imported one, only when
\* the producer's waitIdle has returned (and its first copy has finished).
C3_ReceiveAfterWaitIdle ==
  \A c \in Consumers :
    (c_fd[c] >= 0 \/ c_import_calls[c] > 0 \/ chan[c] # <<>>) =>
      p_waited /\ p_copies >= 1

\* C3 witness: a consumer has imported the descriptor it received
C3_Witness ==
  \E c \in Consumers : c_fd[c] >= 0 /\ c_import_calls[c] = 1

\* C4: export_memory and send_exportable_fd are called at most once, inside
\* the first update(), and exactly once when an update() has returned;
\* every consumer calls recvmsg and the importing allocateMemory at most
\* once, exactly once when prepare() has returned, and all before update().
C4_ExactlyOnce ==
  /\ p_export_calls <= 1 /\ p_send_calls <= 1
  /\ p_export_calls = p_send_calls
  /\ ppc \in SendingPcs => p_frames = 1 /\ p_export_calls = 1
  /\ (ppc = "prepared" /\ p_frames >= 1) => exported /\ p_export_calls = 1
  /\ exported => p_export_calls = 1
  /\ \A c \in Consumers :
       /\ c_recv_calls[c] <= 1 /\ c_import_calls[c] <= 1
       /\ cpc[c] = "prepared" => c_recv_calls[c] = 1 /\ c_import_calls[c] = 1
       /\ c_frames[c] > 0 => cpc[c] = "prepared"

\* C4 witness: both sides have made a second update() after the hand-off
C4_Witness ==
  /\ p_frames = 2 /\ ppc = "prepared" /\ p_export_calls = 1
  /\ \E c \in Consumers : c_frames[c] = 2 /\ c_import_calls[c] = 1

RvWellFormed ==
  /\ rv_msg.has_cmsg
  /\ rv_msg.cmsg_len = CMSG_LEN_INT
  /\ rv_msg.cmsg_level = SOL_SOCKET
  /\ rv_msg.cmsg_type = SCM_RIGHTS

\* C5: receive_fd returns a non-negative descriptor only for a message whose
\* first control message has length CMSG_LEN(sizeof(int)), level SOL_SOCKET
\* and type SCM_RIGHTS; for every other message it returns -1.
C5_ReceiveFdSentinel ==
  rv_pc = "returned" =>
    /\ rv_result >= 0 => RvWellFormed
    /\ ~RvWellFormed => rv_result = -1

\* C5 witness: a control message of the right length and level but another
\* type has been parsed
C5_Witness ==
  /\ rv_pc = "returned" /\ rv_result = -1
  /\ rv_msg.has_cmsg /\ rv_msg.cmsg_len = CMSG_LEN_INT
  /\ rv_msg.cmsg_level = SOL_SOCKET /\ rv_msg.cmsg_type = SCM_OTHER
  /\ rv_msg.data >= 0

\* C6: a consumer whose receive_fd returned a negative value is stopped, and
\* allocateMemory is only ever given a non-negative descriptor that
\* receive_fd returned.
C6_NoImportOfSentinel ==
  \A c \in Consumers :
    /\ (c_recv_calls[c] > 0 /\ c_fd[c] < 0) => cpc[c] = "aborted"
    /\ cpc[c] \in {"close", "allocate", "bind", "prepared"} =>
         c_fd[c] >= 0 /\ c_recv_calls[c] = 1
    /\ c_import_calls[c] > 0 =>
         c_import_fd[c] >= 0 /\ c_import_fd[c] = c_fd[c] /\ c_recv_calls[c] = 1

\* C6 witness: recvmsg returned a message without its control message
C6_Witness ==
  \E c \in Consumers :
    /\ cpc[c] = "aborted" /\ c_err[c] = "no_fd"
    /\ c_fd[c] = -1 /\ c_import_calls[c] = 0

\* C7: at most one descriptor is sent; in Closed the listening socket and
\* the accepted connection are closed and nothing is queued; a consumer that
\* connects after Closed fails at connect; at most one consumer gets a
\* descriptor.
C7_SingleUse ==
  /\ Cardinality({i \in 1..Len(p_log) : p_log[i][1] = "sendmsg"}) <= 1
  /\ Cardinality({c \in Consumers : chan[c] # <<>> \/ c_fd[c] >= 0}) <= 1
  /\ \A c \in Consumers : Len(chan[c]) <= 1
  /\ tstate = "Closed" =>
       /\ lsock = "closed" /\ backlog = <<>>
       /\ conn[p_conn] \in {"eof", "closed"}
       /\ \A c \in Consumers : conn[c] \notin {"queued", "accepted"}
  /\ \A c \in Consumers :
       c_conn_at[c] = "Closed" =>
         cpc[c] = "aborted" /\ c_err[c] = "connect" /\ c_fd[c] = NoFd

\* C7 witness: one consumer got the descriptor, a second one connected after
\* the sockets were closed
C7_Witness ==
  \E c, d \in Consumers :
    /\ c # d /\ c_fd[c] >= 0
    /\ c_conn_at[d] = "Closed" /\ cpc[d] = "aborted"

\* C8: a consumer that calls connect before the producer listens is stopped
\* by the failed connect: it never calls recvmsg and never has a descriptor.
C8_ConnectBeforeListenFails ==
  \A c \in Consumers :
    c_conn_at[c] \in PreListen =>
      /\ cpc[c] = "aborted" /\ c_err[c] = "connect"
      /\ c_recv_calls[c] = 0 /\ c_fd[c] = NoFd /\ c_import_calls[c] = 0

\* C8 witness: the path is bound, nobody listens yet, the connect was refused
C8_Witness ==
  \E c \in Consumers :
    /\ c_conn_at[c] = "Bound" /\ path_exists
    /\ cpc[c] = "aborted" /\ c_err[c] = "connect"

\* C9 as stated: a consumer that connects before the producer listens neither
\* completes the import nor terminates.
C9_Original ==
  \A c \in Consumers :
    c_conn_at[c] \in PreListen => cpc[c] \notin {"aborted", "prepared"}

\* C9 amended: there is no cancellation or timeout (a consumer blocked in
\* recvmsg stays there until a message or the end of the stream arrives);
\* a consumer that connects before the producer listens does not hang: it
\* terminates at the failed connect, without completing the import.
C9_MisorderedTerminates ==
  /\ [](\A c \in Consumers :
          c_conn_at[c] \in PreListen =>
            cpc[c] = "aborted" /\ c_import_calls[c] = 0 /\ c_frames[c] = 0)
  /\ [][\A c \in Consumers :
          (cpc[c] = "recvmsg" /\ recvmsg_results(conn[c], chan[c]) = {})
          => (cpc'[c] = "recvmsg" /\ c_recv_calls'[c] = c_recv_calls[c])]_vars

\* C9 witness: the consumer connected before the producer had a socket
C9_Witness ==
  \E c \in Consumers :
    /\ c_conn_at[c] = "Idle" /\ ~path_exists
    /\ cpc[c] = "aborted" /\ ppc = "constructed"

\* C10: while the producer is in accept and no connection is queued it takes
\* no step (no send, no close, no further frame); in accept it is Listening,
\* has made one update() and has sent nothing.
C10_AcceptBlocks ==
  /\ [](ppc = "accept" =>
          /\ tstate = "Listening" /\ lsock = "listening"
          /\ p_frames = 1 /\ p_send_result = 2 /\ ~exported
          /\ \A c \in Consumers : chan[c] = <<>>)
  /\ [][(ppc = "accept" /\ backlog = <<>>) =>
          (pvars' = pvars /\ lsock' = lsock /\ path_exists' = path_exists)]_vars

\* C10 witness: the producer listens and every consumer is already stopped
C10_Witness ==
  /\ ppc = "accept" /\ backlog = <<>> /\ tstate = "Listening"
  /\ \A c \in Consumers : cpc[c] = "aborted"

\* the consumer connected while the producer was Listening and is the
\* connection the producer's accept() takes
OrderedLaunch(c) ==
  /\ c_conn_at[c] = "Listening" /\ conn[c] = "queued"
  /\ tstate = "Listening" /\ backlog # <<>> /\ Head(backlog) = c

HandoffDone(c) ==
  /\ tstate = "Closed" /\ exported /\ ppc = "prepared"
  /\ c_fd[c] >= 0 /\ conn[c] = "closed" /\ cpc[c] = "prepared"

\* a system call of the producer's transport returned an error, sendmsg sent
\* less than the payload, or the kernel delivered no control message
HandoffFailed(c) ==
  \/ \E i \in 1..Len(p_log) : p_log[i][2] < 0
  \/ p_send_result \in 0..(PayloadLen - 1)
  \/ c_ctrunc[c]

C12_FdClosedAfterSend ==
  tstate = "Closed" => "exportable_fd" \in p_closed

\* C13: when sendmsg returns an error or sends less than the 1 payload byte,
\* the producer stops: it does not go on to Sent or Closed, does not close the
\* sockets as after a delivery and does not set the exported flag.
C13_ShortSendIsFatal ==
  p_send_result < PayloadLen =>
    /\ tstate \notin {"Sent", "Closed"}
    /\ ppc = "aborted" /\ ~exported

\* C14: a consumer never passes the received descriptor to ::close, in
\* prepare, in update and in the destructor: the only descriptor it closes is
\* its connection socket, which it has closed once the import was made.
C14_NeverClosesImportedFd ==
  \A c \in Consumers :
    /\ "imported_fd" \notin c_closed[c]
    /\ c_closed[c] \subseteq {"external_socket"}
    /\ c_import_calls[c] > 0 => c_closed[c] = {"external_socket"}

\* C14 witness: a consumer imported the descriptor, drew a frame and was
\* destroyed
C14_Witness ==
  \E c \in Consumers :
    /\ cpc[c] = "destroyed" /\ c_fd[c] >= 0 /\ c_import_calls[c] = 1
    /\ c_frames[c] >= 1 /\ c_teardown[c] = <<"destroyImage", "freeMemory">>
    /\ c_closed[c] = {"external_socket"}

Count(log, ev) == Cardinality({i \in 1..Len(log) : log[i] = ev})

\* the image is destroyed at most once, the backing store is released at
\* most once and not before the image
ReleasedInOrder(log, release) ==
  /\ Count(log, "destroyImage") <= 1 /\ Count(log, release) <= 1
  /\ \A i, j \in 1..Len(log) :
       (log[i] = "destroyImage" /\ log[j] = release) => i < j

ReleasedOnce(log, release) ==
  Count(log, "destroyImage") = 1 /\ Count(log, release) = 1

\* C17: in each of the three samples the destructor destroys the image at
\* most once and releases the backing store (exportable memory, imported
\* memory, VMA pool) at most once and only after the image; a destroyed
\* sample that had created them has released each exactly once; no backing
\* store is released while its image is live.
C17_TeardownOrder ==
  /\ ReleasedInOrder(p_teardown, "freeMemory")
  /\ (ppc = "destroyed" /\ p_memories > 0) => ReleasedOnce(p_teardown, "freeMemory")
  /\ exportable_memory = "freed" => exportable_image = "destroyed"
  /\ \A c \in Consumers :
       /\ ReleasedInOrder(c_teardown[c], "freeMemory")
       /\ (cpc[c] = "destroyed" /\ c_memories[c] > 0) =>
            ReleasedOnce(c_teardown[c], "freeMemory")
       /\ imported_memory[c] = "freed" => imported_image[c] = "destroyed"
  /\ ReleasedInOrder(fd_teardown, "vmaDestroyPool")
  /\ (fd_pc = "destroyed" /\ fd_pools > 0) =>
       ReleasedOnce(fd_teardown, "vmaDestroyPool")
  /\ fd_pool = "destroyed" => fd_image = "destroyed"

\* C17 witness: exporter and importer were destroyed after their frames
C17_Witness ==
  /\ ppc = "destroyed" /\ p_frames >= 1
  /\ p_teardown = <<"destroyImage", "freeMemory">>
  /\ \E c \in Consumers :
       /\ cpc[c] = "destroyed" /\ c_memories[c] = 1
       /\ imported_memory[c] = "freed"

\* C18: every sample creates at most one shared image and at most one
\* memory object or pool, has exactly one of each when prepare has returned,
\* a further call of one of the five create operations stops the process
\* without creating anything, and nothing is destroyed more than once.
C18_CreateOnce ==
  /\ p_images <= 1 /\ p_memories <= 1
  /\ ppc \notin {"constructed", "aborted", "destroyed"} =>
       p_images = 1 /\ p_memories = 1
  /\ p_recreate # "none" => ppc = "aborted"
  /\ Count(p_teardown, "destroyImage") <= p_images
  /\ Count(p_teardown, "freeMemory") <= p_memories
  /\ \A c \in Consumers :
       /\ c_images[c] <= 1 /\ c_memories[c] <= 1
       /\ cpc[c] = "prepared" => c_images[c] = 1 /\ c_memories[c] = 1
       /\ c_recreate[c] # "none" => cpc[c] = "aborted"
       /\ Count(c_teardown[c], "destroyImage") <= c_images[c]
       /\ Count(c_teardown[c], "freeMemory") <= c_memories[c]
  /\ fd_images <= 1 /\ fd_pools <= 1
  /\ fd_pc = "prepared" => fd_images = 1 /\ fd_pools = 1
  /\ fd_recreate # "none" => fd_pc = "aborted"
  /\ Count(fd_teardown, "destroyImage") <= fd_images
  /\ Count(fd_teardown, "vmaDestroyPool") <= fd_pools

\* C18 witness: create_exportable_image was called on the prepared exporter
C18_Witness ==
  /\ p_recreate = "create_exportable_image" /\ ppc = "aborted"
  /\ p_images = 1 /\ p_memories = 1 /\ exportable_image = "live"

\* C15: what a consumer's color image holds after the copy out of the
\* imported image is the frame the producer had copied into the exportable
\* image when the descriptor was sent, i.e. its first frame (the export is
\* made in the first update).
C15_RoundTrip ==
  \A c \in Consumers :
    c_color[c] # NoFrame => c_color[c] = [kind |-> "frame", frame |-> 1]

\* C16: when the allocation size the consumer requests differs from the
\* size the producer allocated, the import fails: the consumer never has an
\* image bound to imported memory of another size than it requested.
C16_MismatchFailsImport ==
  /\ al_pc \in {"imported", "bound"} => al_c_size = al_p_size
  /\ (al_pc \notin {"start", "exported"} /\ al_c_size # al_p_size) =>
       al_pc \in {"failed", "aborted"}

\* C19: every failure of the hand-off ends in termination with a log message:
\* a process that was stopped has written an error message; a producer
\* system call that returned an error, or a sendmsg that sent less than the
\* payload, stops the producer; a consumer whose socket, connect or recvmsg
\* failed, or whose control message was absent or malformed, is stopped with
\* an error message written.
C19_FailuresLoggedAndFatal ==
  /\ ppc = "aborted" => p_err # "none"
  /\ \A i \in 1..Len(p_log) : p_log[i][2] < 0 => ppc = "aborted"
  /\ p_send_result < PayloadLen => ppc = "aborted"
  /\ \A c \in Consumers :
       /\ cpc[c] = "aborted" => c_loge[c] # "none"
       /\ (c_recv_calls[c] > 0 /\ c_fd[c] < 0) => cpc[c] = "aborted"

Barriers(cmds, img, new) ==
  {i \in 1..Len(cmds) : cmds[i][1] = "barrier" /\ cmds[i][2] = img /\ cmds[i][4] = new}
Positions(cmds, cmd) == {i \in 1..Len(cmds) : cmds[i] = cmd}
RenderPasses(cmds) == {i \in 1..Len(cmds) : cmds[i][1] = "renderpass"}
Copies(cmds) == {i \in 1..Len(cmds) : cmds[i][1] = "copy"}
AllBefore(S, T) == S # {} /\ T # {} /\ \A i \in S, j \in T : i < j

\* steps 1 to 4 in order, the two transfer layouts in either direction
FourSteps(cmds, shared) ==
  \E colorT \in {"TransferSrcOptimal", "TransferDstOptimal"} :
    LET sharedT == IF colorT = "TransferSrcOptimal" THEN "TransferDstOptimal"
                   ELSE "TransferSrcOptimal"
        s1  == Positions(cmds, barrier("color", "Undefined", "ColorAttachmentOptimal"))
        sr  == RenderPasses(cmds)
        s2c == Barriers(cmds, "color", colorT)
        s2s == Barriers(cmds, shared, sharedT)
        s3  == Copies(cmds)
        s4  == Barriers(cmds, "color", "PresentSrcKHR")
    IN /\ AllBefore(s1, sr)
       /\ AllBefore(sr, s2c) /\ AllBefore(sr, s2s)
       /\ AllBefore(s2c, s3) /\ AllBefore(s2s, s3)
       /\ Cardinality(s3) = 1
       /\ AllBefore(s3, s4) /\ s4 = {Len(cmds)}

\* steps 2 to 4 of the consumer, and no step 1
StepsTwoToFour(cmds) ==
  LET s2c == Positions(cmds, barrier("color", "Undefined", "TransferDstOptimal"))
      s2s == Barriers(cmds, "imported", "TransferSrcOptimal")
      s3  == Positions(cmds, <<"copy", "imported", "color", "-">>)
      s4  == Barriers(cmds, "color", "PresentSrcKHR")
  IN /\ Barriers(cmds, "color", "ColorAttachmentOptimal") = {}
     /\ RenderPasses(cmds) = {}
     /\ AllBefore(s2c, s3) /\ AllBefore(s2s, s3)
     /\ Cardinality(s3) = 1 /\ Copies(cmds) = s3
     /\ AllBefore(s3, s4) /\ s4 = {Len(cmds)}

FrameRecorded(frames, cmds) == frames > 0 <=> cmds # <<>>

\* C20 as stated: the commands of every frame of every sample, the consumer
\* included, are steps 1 to 4 in order.
C20_Original ==
  /\ p_cmdbuf # <<>> => FourSteps(p_cmdbuf, "exportable")
  /\ fd_cmdbuf # <<>> => FourSteps(fd_cmdbuf, "exportable")
  /\ \A c \in Consumers : c_cmdbuf[c] # <<>> => FourSteps(c_cmdbuf[c], "imported")

\* C20 amended: every frame of the two producing samples records steps 1 to
\* 4 in order (color image Undefined -> ColorAttachmentOptimal and the render
\* pass, color image -> TransferSrcOptimal and shared image ->
\* TransferDstOptimal, one copy color -> shared, color image -> PresentSrcKHR
\* last); every frame of the consumer records no step 1 (no transition to
\* ColorAttachmentOptimal, no render pass) and steps 2 to 4 in order (color
\* image Undefined -> TransferDstOptimal and imported image ->
\* TransferSrcOptimal, one copy imported -> color, color image ->
\* PresentSrcKHR last).
C20_FrameSteps ==
  /\ FrameRecorded(p_frames, p_cmdbuf)
  /\ p_cmdbuf # <<>> =>
       /\ FourSteps(p_cmdbuf, "exportable")
       /\ Positions(p_cmdbuf, <<"copy", "color", "exportable", "-">>) # {}
  /\ FrameRecorded(fd_frames, fd_cmdbuf)
  /\ fd_cmdbuf # <<>> =>
       /\ FourSteps(fd_cmdbuf, "exportable")
       /\ Positions(fd_cmdbuf, <<"copy", "color", "exportable", "-">>) # {}
  /\ \A c \in Consumers :
       /\ FrameRecorded(c_frames[c], c_cmdbuf[c])
       /\ c_cmdbuf[c] # <<>> => StepsTwoToFour(c_cmdbuf[c])

\* C20 witness: exporter and importer have both recorded a frame
C20_Witness ==
  /\ p_frames >= 1 /\ Len(p_cmdbuf) = 7
  /\ \E c \in Consumers : c_frames[c] >= 1 /\ Len(c_cmdbuf[c]) = 4

\* C21: after the hand-off nothing orders the two processes' accesses to the
\* shared memory: a consumer whose queue holds a submitted frame starts
\* reading the imported image also while the producer's copy into the same
\* memory is running, and the producer starts its copy also while a consumer
\* is reading.
C21_NoOrdering ==
  /\ \A c \in Consumers :
       (c_submitted[c] > 0 /\ ~c_reading[c] /\ p_writing)
         => ENABLED Import_gpu_begin(c)
  /\ (p_submitted > 0 /\ ~p_writing /\ ppc # "aborted"
        /\ \E c \in Consumers : c_reading[c])
       => ENABLED Export_gpu_begin

\* C21 witness: on the producer's second frame its copy writes the shared
\* image while a consumer that imported the memory is reading it
C21_Witness ==
  \E c \in Consumers :
    /\ c_import_calls[c] = 1 /\ c_import_fd[c] >= 0
    /\ p_frames >= 2 /\ exported
    /\ p_writing /\ c_reading[c]

\* C22: in every sample the memory type of the allocation made for the
\* image is in the image's memoryTypeBits and is host-visible and
\* host-coherent; when no memory type is both, no allocation is made and the
\* process is stopped.
C22_MemoryTypeFits ==
  /\ mt_pc = "allocated" =>
       /\ mt_type \in mt_image_bits
       /\ host_visible_coherent(mt_props[mt_type])
  /\ (mt_pc \notin {"unused", "start", "pool"}
       /\ get_memory_type(mt_image_bits, mt_props) = {}) => mt_pc = "aborted"

\* C23: every bind of the producer is made with the rendezvous path removed,
\* so that it can succeed also when the path was left on disk by an earlier
\* run (completed or stopped), and the run can then reach Listening; once the
\* socket is bound the path stays on disk, also after Closed.
C23_StalePathRemoved ==
  /\ (ppc = "bind" /\ lsock = "open")
       => ENABLED (Export_bind /\ tstate' = "Bound")
  /\ (ppc = "listen" /\ lsock = "bound")
       => ENABLED (Export_listen /\ tstate' = "Listening")
  /\ tstate \in {"Bound", "Listening", "Connected", "Sent", "Closed"}
       => path_exists

\* C23 witness: a run of the producer started with the path left on disk by
\* the completed earlier run is Listening
C23_Witness ==
  /\ p_runs = 1 /\ p_stale /\ tstate = "Listening"
  /\ \E c \in Consumers : c_import_calls[c] = 1

\* C24: for every descriptor d >= 0 the message send_fd builds has one
\* control message with length CMSG_LEN(sizeof(int)), level SOL_SOCKET and
\* type SCM_RIGHTS that carries d; when the kernel has delivered that control
\* message with the descriptor number it installed, receive_fd returns that
\* number and not the sentinel.
C24_MessageRoundTrip ==
  /\ rt_pc = "sent" =>
       /\ rt_msg.has_cmsg /\ rt_msg.cmsg_len = CMSG_LEN_INT
       /\ rt_msg.cmsg_level = SOL_SOCKET /\ rt_msg.cmsg_type = SCM_RIGHTS
       /\ rt_msg.data = rt_fd
  /\ (rt_pc = "returned" /\ rt_msg.has_cmsg) =>
       /\ rt_result = rt_msg.data
       /\ rt_result >= 0 /\ rt_result # NoFd

\* C24 witness: receive_fd returned the descriptor number installed for a
\* descriptor that had another number in the sender
C24_Witness ==
  /\ rt_pc = "returned" /\ rt_msg.has_cmsg
  /\ rt_fd > MaxFd /\ rt_result \in Fds

PrepareOrder ==
  <<"createImage", "socket", "connect", "recvmsg", "close", "allocateMemory",
    "bindImageMemory", "HPPImageView">>

\* C25: the calls of a consumer's prepare() are made in the order
\* createImage, socket, connect, recvmsg, close, allocateMemory (import),
\* bindImageMemory, image view; the image is bound once, at offset 0, to the
\* imported memory; update() records its copy out of the imported image only
\* after all of them, the bind included.
C25_PrepareOrder ==
  \A c \in Consumers :
    /\ \A i \in 1..Len(c_steps[c]) :
         IF i <= Len(PrepareOrder) THEN c_steps[c][i] = PrepareOrder[i]
         ELSE c_steps[c][i] = "update"
    /\ Count(c_steps[c], "bindImageMemory") <= 1
    /\ Has(c_steps[c], "bindImageMemory") =>
         /\ c_bind_offset[c] = 0
         /\ imported_memory[c] # "null" /\ c_import_calls[c] = 1
    /\ c_frames[c] > 0 => Has(c_steps[c], "bindImageMemory")

\* C25 witness: a consumer went through prepare() and recorded a frame
C25_Witness ==
  \E c \in Consumers :
    /\ c_frames[c] >= 1
    /\ Len(c_steps[c]) > Len(PrepareOrder)
    /\ c_steps[c][Len(PrepareOrder) + 1] = "update"

\* positions of the barriers recorded on the color image, in order
ColorBarriers(cmds) ==
  {i \in 1..Len(cmds) : cmds[i][1] = "barrier" /\ cmds[i][2] = "color"}
PrevColorBarrier(cmds, i) ==
  IF \E j \in ColorBarriers(cmds) : j < i
  THEN CHOOSE j \in ColorBarriers(cmds) :
         j < i /\ \A k \in ColorBarriers(cmds) : k < i => k <= j
  ELSE 0
View0Calls(calls) == SelectSeq(calls, LAMBDA s : s[2] = 0)
NewLayouts(cmds) ==
  [k \in 1..Len(SelectSeq(cmds, LAMBDA x : x[1] = "barrier" /\ x[2] = "color")) |->
     SelectSeq(cmds, LAMBDA x : x[1] = "barrier" /\ x[2] = "color")[k][4]]

\* the layouts of view 0 in one recorded frame
LayoutsTracked(cmds, calls, tracked, sequence) ==
  cmds # <<>> =>
    /\ \A i \in ColorBarriers(cmds) :
         /\ \/ cmds[i][3] = "Undefined" /\ PrevColorBarrier(cmds, i) = 0
            \/ /\ PrevColorBarrier(cmds, i) # 0
               /\ cmds[i][3] = cmds[PrevColorBarrier(cmds, i)][4]
         /\ \E k \in 1..Len(calls) : calls[k] = <<i, 0, cmds[i][4]>>
    /\ Len(View0Calls(calls)) = Cardinality(ColorBarriers(cmds))
    /\ NewLayouts(cmds) = sequence
    /\ tracked = "PresentSrcKHR"

\* C26: in every recorded frame of every sample each barrier on the render
\* target's color view declares as old layout Undefined when it is the first
\* of the frame and the new layout of the previous barrier on that view
\* otherwise; set_layout(0, new layout) is called right after each such
\* barrier and at no other point; the layouts are ColorAttachmentOptimal,
\* TransferSrcOptimal, PresentSrcKHR in the producing samples and
\* TransferDstOptimal, PresentSrcKHR in the consumer, and after every draw()
\* the render target holds PresentSrcKHR for view 0.
C26_LayoutTracking ==
  /\ LayoutsTracked(p_cmdbuf, p_set_layout, p_rt_layout,
                    <<"ColorAttachmentOptimal", "TransferSrcOptimal", "PresentSrcKHR">>)
  /\ LayoutsTracked(fd_cmdbuf, fd_set_layout, fd_rt_layout,
                    <<"ColorAttachmentOptimal", "TransferSrcOptimal", "PresentSrcKHR">>)
  /\ \A c \in Consumers :
       LayoutsTracked(c_cmdbuf[c], c_set_layout[c], c_rt_layout[c],
                      <<"TransferDstOptimal", "PresentSrcKHR">>)

\* C26 witness: the producer and a consumer have drawn two frames each
C26_Witness ==
  /\ p_frames = 2 /\ p_rt_layout = "PresentSrcKHR"
  /\ \E c \in Consumers : c_frames[c] = 2 /\ c_rt_layout[c] = "PresentSrcKHR"

\* C27: in every sample a copy is recorded only while the extent of the
\* render target's color image equals the extent of the shared image, also
\* in frames after a resize: the region of a recorded copy is the extent of
\* the shared image created in prepare() and never exceeds it.
C27_CopyWithinSharedExtent ==
  rs_region # NoExtent =>
    /\ rs_region = rs_shared
    /\ rs_region.width <= rs_shared.width
    /\ rs_region.height <= rs_shared.height

\* the exact product width * height * 4 in 8 bytes (it is below 2^64)
ExactSize(extent) ==
  Mul(Mul(Bytes(extent.width, DEVICESIZE_BYTES),
          Bytes(extent.height, DEVICESIZE_BYTES), DEVICESIZE_BYTES),
      Bytes(4, DEVICESIZE_BYTES), DEVICESIZE_BYTES)

\* the number a byte sequence stands for, when it is below 2^31
RECURSIVE Value(_)
Value(a) == IF a = <<>> THEN 0 ELSE Head(a) + 256 * Value(Tail(a))

\* on the extents of the allocation model the byte arithmetic gives the
\* number get_image_size gives
SizeModelsAgree ==
  (sz_pc = "returned" /\ sz_extent.width <= 1024 /\ sz_extent.height <= 1024)
    => Value(SubSeq(sz_result, 1, 4)) = get_image_size(sz_extent)

\* C28: get_image_size returns the 64-bit value width * height * 4 for
\* every surface extent, also when that value is 2^32 or more.
C28_ImageSizeExact ==
  sz_pc = "returned" => sz_result = ExactSize(sz_extent)

\* C29: the memory the producer allocates for its image is at least as
\* large as the size the driver requires for that image, and when producer
\* and consumer describe the same image it equals the allocation size the
\* consumer requests for the import.
C29_ExportSizeCoversImage ==
  /\ al_pc \in {"exported", "imported", "failed", "bound"} =>
       al_p_size >= mem_reqs_size(al_p_extent, al_pad)
  /\ (al_pc \in {"imported", "failed", "bound"} /\ al_p_extent = al_c_extent) =>
       al_p_size = al_c_size

\* C30: every exporter instance of a process that has made an update() has
\* made waitIdle and export_memory exactly once, in its own first update().
C30_EachInstanceExports ==
  \A i \in Instances :
    tw_frames[i] >= 1 => tw_waits[i] = 1 /\ tw_exports[i] = 1

\* the calls a destructor may make on a sample whose image and backing store
\* are in the given states: each only on an object that was created
SafeTeardown(log, img, store, release) ==
  /\ \A i \in 1..Len(log) : log[i] \in {"destroyImage", release}
  /\ Has(log, "destroyImage") => img = "live"
  /\ Has(log, release) => store = "live"

\* C31: in every lifecycle state of each sample (constructed only, prepare()
\* returned false, prepared) the destructor runs to its end and destroys or
\* dereferences only objects that were created; ~ExternalMemoryFD makes no
\* use of the pool when create_memory_pool never ran.
C31_TeardownSafe ==
  [][ /\ Export_destroy =>
           /\ ppc' = "destroyed"
           /\ SafeTeardown(SubSeq(p_teardown', Len(p_teardown) + 1, Len(p_teardown')),
                           exportable_image, exportable_memory, "freeMemory")
      /\ \A c \in Consumers : Import_destroy(c) =>
           /\ cpc'[c] = "destroyed"
           /\ SafeTeardown(SubSeq(c_teardown'[c], Len(c_teardown[c]) + 1,
                                  Len(c_teardown'[c])),
                           imported_image[c], imported_memory[c], "freeMemory")
      /\ FD_destroy =>
           /\ fd_pc' = "destroyed"
           /\ SafeTeardown(SubSeq(fd_teardown', Len(fd_teardown) + 1,
                                  Len(fd_teardown')),
                           fd_image, fd_pool, "vmaDestroyPool") ]_vars

\* in the order of a teardown, views and wrappers of the image end before the
\* image is destroyed and before its memory or pool is released
EndsBefore(order) ==
  \A i, j \in 1..Len(order) :
    (order[i] \in {"~HPPImageView", "~HPPImage"} /\
     order[j] \in {"destroyImage", "freeMemory", "vmaDestroyPool"}) => i < j

\* C32: at teardown of each sample the image view and the image wrapper of
\* the shared image are destroyed before the image is destroyed and before
\* its memory or pool is released.
C32_ViewsEndFirst ==
  /\ EndsBefore(p_teardown \o p_members)
  /\ \A c \in Consumers : EndsBefore(c_teardown[c] \o c_members[c])
  /\ EndsBefore(fd_teardown \o fd_members)

\* the barriers recorded for `img' before the first copy that reads it
BarriersBeforeRead(cmds, img) ==
  {i \in 1..Len(cmds) :
     /\ cmds[i][1] = "barrier" /\ cmds[i][2] = img
     /\ \E j \in i + 1..Len(cmds) : cmds[j][1] = "copy" /\ cmds[j][2] = img
     /\ \A j \in 1..i : ~(cmds[j][1] = "copy" /\ cmds[j][2] = img)}

\* C33: while the device executes a consumer frame, the barrier recorded for
\* the imported image before copy_image declares as old layout the layout
\* the image is in, and never Undefined: the image holds the producer's data
\* from the import on.
C33_ImportedContentsKept ==
  \A c \in Consumers :
    c_reading[c] =>
      \A i \in BarriersBeforeRead(c_cmdbuf[c], "imported") :
        /\ c_cmdbuf[c][i][3] # "Undefined"
        /\ c_cmdbuf[c][i][3] = imported_layout[c]

====
